---- MODULE Spec2Model ----
(***************************************************************************)
(* Calendar-sync and cleaning-notification pipeline of mevo.               *)
(*                                                                         *)
(* Spec       WorkerService (Prisma build): processAllUsers, runNow,       *)
(*            processCheckoutsForUser together with ICalService and        *)
(*            WhatsAppService.                                             *)
(* SpecLegacy WorkerService (sql.js build): processCheckouts.              *)
(* SpecSched  SchedulerService.sendCleaningNotifications with QueueService *)
(*            and NotificationService, fired by cron and by runJob.        *)
(* SpecJobs   SchedulerService.addJob / runJob wrappers and the worker's   *)
(*            cron callback.                                               *)
(* SpecLifecycle SchedulerService.start / stop / getStatus.                *)
(* SpecFallback  NotificationService template lookup and default content.  *)
(* SpecCache     icalService.fetchCalendar with ETag and calendarCache.    *)
(* SpecGuard     Spec with rejecting awaits inside the isRunning guard.    *)
(* SpecSiblings  SpecSched with reservations arriving between firings.     *)
(* SpecReminders the reminder processors and their sent flags.             *)
(* SpecDaily     runDailyRoutine under UNIQUE (client_id, run_date).       *)
(* SpecSync      QueueService.syncPropertyCalendar, one await at a time.   *)
(* SpecWebhook   WebhookService.sendWebhook with failing database writes.  *)
(***************************************************************************)
EXTENDS Integers, Sequences, FiniteSets, TLC

(***************************************************************************)
(* Bounds                                                                  *)
(***************************************************************************)
NumProperties == 2
MaxTriggers == 2

(***************************************************************************)
(* Fixed inputs                                                            *)
(***************************************************************************)
Users == {1, 2}
Properties == 1..NumProperties
Phones == {"11999990001", "11999990002"}
Invocations == {"cron", "manual"}
Sources == <<"airbnb", "booking">>
NoUrl == <<0, "null">>
NoUid == ""
NoTemplate == <<>>

\* instants are hours since the epoch (UTC); the host runs at UTC-3
HostOffset == 0 - 3
TodayStart == 24 + 3
Now == TodayStart + 8

\* dayjs(t).format('YYYY-MM-DD'): the calendar day of t on the host clock
dayjsFormatIn(t, offset) == (t + offset) \div 24

dayjsFormat(t) == dayjsFormatIn(t, HostOffset)

today == dayjsFormat(Now)

(***************************************************************************)
(* The external world: calendar feeds behind the iCal URLs                 *)
(***************************************************************************)
VEvent(id, uid, end) ==
    [type |-> "VEVENT", id |-> id, uid |-> uid, hasEnd |-> TRUE, end |-> end,
     start |-> end - 48]

FeedA == <<[type |-> "VTIMEZONE", id |-> "tz", uid |-> NoUid, hasEnd |-> FALSE, end |-> 0,
            start |-> 0],
           VEvent("e1", "a", TodayStart + 11)>>

FeedB == <<VEvent("e2", "a", TodayStart + 11)>>

FeedC == <<VEvent("e3", NoUid, TodayStart + 11), VEvent("e4", "c", TodayStart + 35)>>

FeedD == <<VEvent("e5", "d", TodayStart + 10), VEvent("e6", "e", TodayStart - 13)>>

\* the SUMMARY line of the feed entries, as a sequence of words
Summary(id) ==
    CASE id = "e1" -> <<"Maria", "Silva", "(", "HMABC123", ")">>
      [] id = "e2" -> <<"CLOSED", "-", "Joao">>
      [] id = "e3" -> <<"Airbnb", "(", "Not", "available", ")">>
      [] OTHER -> <<"Reserved">>

Urls == {<<p, s>> : p \in Properties, s \in {"airbnb", "booking"}}

Calendar(url) ==
    CASE url = <<1, "airbnb">> -> FeedA
      [] url = <<1, "booking">> -> FeedB
      [] url = <<2, "airbnb">> -> FeedC
      [] url[2] = "airbnb" -> FeedD
      [] OTHER -> <<>>

HasUrl(url) == url[2] = "airbnb" \/ url[1] = 1

PropertyName(p) == "Imovel" \o ToString(p)

EmployeeName(p) == "Func" \o ToString(p)

PropertyCheckoutTime(p) == IF p = 1 THEN "null" ELSE ToString(9 + p) \o ":00"

DefaultCheckoutTime == "11:00"

ExampleTemplate == <<"Oi", "(nome da funcionaria)", "limpar", "(nome do imovel)",
                     "as", "(horario)">>

(***************************************************************************)
(* State                                                                   *)
(***************************************************************************)
VARIABLES
    status,          \* WhatsAppService.status
    employeePhone,   \* properties.employeePhone
    userId,          \* properties.userId
    messageTemplate, \* settings['message_template']
    processedEvent,  \* rows of the processed_events table, in insertion order
    messageLog,      \* rows of the message_logs table, in insertion order
    sendCalls,       \* history of whatsappService.sendMessage calls
    planned,         \* history: per pipeline body, the checkouts it collected
    isRunning,       \* WorkerService.isRunning
    inv,             \* per entry point: position and locals of the invocation
    triggers,        \* number of firings so far (cron ticks and manual requests)
    jobRun,          \* the scheduled-job invocations in flight, oldest first
    auditLog,        \* rows of the audit_logs table written by the job wrapper
    rejections,      \* history: promises of cron callbacks that rejected unhandled
    responses,       \* history: answers of POST /api/automation/jobs/:name/run
    fetchFailed,     \* the iCal URLs whose fetch currently fails (network, HTTP, parse)
    fetchRun,        \* progress and results of the three calendar readers
    reservation,     \* rows of the reservations table, in insertion order
    libCall,         \* a library function under test: its arguments and results
    useRedis,        \* QueueService.useRedis
    cleaningTemplate, \* content of the active 'cleaning' row of messageTemplate, if any
    notificationLog, \* rows of the notificationLog table, in insertion order
    notificationQueue, \* jobs waiting in the Bull queue 'notifications'
    cleaning,        \* per entry point: position and locals of sendCleaningNotifications
    scheduler,       \* SchedulerService: jobs, isRunning and the live node-cron tasks
    calendarCache,   \* icalService: calendarCache, per URL the stored payload
    calendarFetch,   \* per caller: the fetchCalendar call in flight and its result
    feedContent,     \* per URL: the version of the feed the remote server holds
    guestReservation, \* a reservation row with its guest: status and the four sent flags
    dailyRun,        \* runDailyRoutine: the cleaning_runs rows and the calls in flight
    syncRun,         \* syncPropertyCalendar: the calls in flight
    webhook          \* WebhookService: the webhook row, its log and the delivery in flight

vars == <<status, employeePhone, userId, messageTemplate, processedEvent,
          messageLog, sendCalls, planned, isRunning, inv, triggers,
          useRedis, cleaningTemplate, notificationLog, notificationQueue, cleaning,
          jobRun, auditLog, rejections, responses,
          fetchFailed, fetchRun, reservation, libCall,
          scheduler, calendarCache, calendarFetch, feedContent,
          guestReservation, dailyRun, syncRun, webhook>>

\* the state of the pipelines above, which the services below never touch
pipelines == <<status, employeePhone, userId, messageTemplate, processedEvent,
               messageLog, sendCalls, planned, isRunning, inv, triggers,
               useRedis, cleaningTemplate, notificationLog, notificationQueue, cleaning,
               jobRun, auditLog, rejections, responses,
               fetchFailed, fetchRun, reservation, libCall>>

\* the state of the services below, which the pipelines above never touch
cacheVars == <<calendarCache, calendarFetch, feedContent>>

services == <<scheduler, cacheVars, guestReservation, dailyRun, syncRun, webhook>>

\* what the scheduler's lifecycle never touches, and what fetchCalendar never touches
notScheduler == <<pipelines, cacheVars, guestReservation, dailyRun, syncRun, webhook>>

notCache == <<pipelines, scheduler, guestReservation, dailyRun, syncRun, webhook>>

\* what the worker never touches
notWorker == <<useRedis, cleaningTemplate, notificationLog, notificationQueue, cleaning,
               jobRun, auditLog, rejections, responses,
               fetchFailed, fetchRun, reservation, libCall, services>>

\* what the scheduler's cleaning job never touches
notCleaning == <<userId, messageTemplate, messageLog, planned, isRunning, inv,
                 jobRun, auditLog, rejections, responses,
                 fetchFailed, fetchRun, reservation, libCall, services>>

\* what the job wrapper and runJob never touch
notJobs == <<status, employeePhone, userId, messageTemplate, processedEvent,
             messageLog, sendCalls, planned, isRunning, inv,
             useRedis, cleaningTemplate, notificationLog, notificationQueue, cleaning,
             fetchFailed, fetchRun, reservation, libCall, services>>

\* what the calendar readers never touch
notFetch == <<status, employeePhone, userId, messageTemplate, processedEvent,
              messageLog, sendCalls, planned, isRunning, inv, triggers,
              useRedis, cleaningTemplate, notificationLog, notificationQueue, cleaning,
              jobRun, auditLog, rejections, responses, libCall, services>>

\* what the library functions under test never touch
notCall == <<status, employeePhone, userId, messageTemplate, processedEvent,
             messageLog, sendCalls, planned, isRunning, inv, triggers,
             useRedis, cleaningTemplate, notificationLog, notificationQueue, cleaning,
             jobRun, auditLog, rejections, responses,
             fetchFailed, fetchRun, reservation, services>>

\* the names start() registers and runJob switches on
JobNames == {"calendar-sync", "checkin-reminders", "checkout-reminders",
             "cleaning-notifications", "review-requests", "cleanup", "daily-summary"}

\* SchedulerService's constructor: an empty Map and isRunning false; no
\* node-cron task is live
\* (`stopped` is history: stop() has run on a started scheduler)
Constructed == [jobs |-> {}, isRunning |-> FALSE, tasks |-> [n \in JobNames |-> 0],
                stopped |-> FALSE]

\* icalService (luxon build): the URLs fetchCalendar is called with, the
\* concurrent callers, an absent Map entry and a caller that is not fetching
CacheUrls == {<<1, "airbnb">>, <<2, "airbnb">>}

Callers == {1, 2}

NotCached == [url |-> NoUrl]

NoCall == [pc |-> "idle"]

\* a confirmed reservation with a guest, no message sent yet
Booked == [status |-> "confirmed", welcomeMessageSent |-> FALSE,
           checkinReminderSent |-> FALSE, checkoutReminderSent |-> FALSE,
           reviewRequestSent |-> FALSE]

\* no runDailyRoutine, no syncPropertyCalendar and no webhook delivery yet
NoDailyRun == [runs |-> <<>>, calls |-> [i \in Invocations |-> [pc |-> "idle"]],
               fetched |-> <<>>, sends |-> <<>>, refused |-> <<>>, fired |-> 0]

NoSyncRun == [calls |-> [i \in Invocations |-> [pc |-> "idle"]], results |-> <<>>,
              started |-> 0]

NoDelivery == [successCount |-> 0, failureCount |-> 0, log |-> <<>>, requests |-> <<>>,
               ended |-> <<>>, triggered |-> 0, call |-> [pc |-> "idle"]]

\* no reader has started
NotFetched == [worker |-> 0, allCheckouts |-> <<>>, aggregated |-> FALSE, events |-> <<>>,
               synced |-> 0, imported |-> 0]

\* `trigger` numbers the firing an invocation serves and `seen` is the status
\* of the channel when its body was entered (history only)
Idle == [pc |-> "idle", users |-> <<>>, user |-> 0, groups |-> <<>>,
         template |-> NoTemplate, trigger |-> 0, seen |-> "none"]

Resting == [pc |-> "idle", groups |-> <<>>, marks |-> <<>>, marked |-> {},
            sent |-> 0, trigger |-> 0, reason |-> "none"]

(***************************************************************************)
(* Sequence helpers                                                        *)
(***************************************************************************)
RECURSIVE Flatten(_)
Flatten(ss) == IF ss = <<>> THEN <<>> ELSE Head(ss) \o Flatten(Tail(ss))

Map(f(_), s) == [i \in 1..Len(s) |-> f(s[i])]

Count(s, P(_)) == Cardinality({i \in 1..Len(s) : P(s[i])})

RECURSIVE SetToSeq(_)
SetToSeq(S) ==
    IF S = {} THEN <<>>
    ELSE LET m == CHOOSE x \in S : \A y \in S : x <= y
         IN <<m>> \o SetToSeq(S \ {m})

(***************************************************************************)
(* ICalService                                                             *)
(***************************************************************************)
\* fetchEvents: the VEVENT entries of the feed; [] for no URL or a failed fetch
fetchEvents(url, failed) ==
    IF url = NoUrl THEN <<>>
    ELSE IF url \in failed THEN <<>>
    ELSE SelectSeq(Calendar(url), LAMBDA e : e.type = "VEVENT")

\* filterCheckoutsForDate on a host whose clock runs at `offset`
filterCheckoutsIn(events, date, offset) ==
    SelectSeq(events, LAMBDA e : e.hasEnd /\ dayjsFormatIn(e.end, offset)
                                              = dayjsFormatIn(date, offset))

\* filterCheckoutsForDate: events whose DTEND formats to the target date
filterCheckoutsForDate(events, date) ==
    filterCheckoutsIn(events, date, HostOffset)

\* parseEvent: uid falls back to `event-${Date.now()}` when the event has none
parseEvent(event, now) ==
    [uid |-> IF event.uid = NoUid THEN "event-" \o ToString(now) ELSE event.uid,
     endDate |-> IF event.hasEnd THEN dayjsFormat(event.end) ELSE 0 - 1]

icalUrl(p, source) == IF HasUrl(<<p, source>>) THEN <<p, source>> ELSE NoUrl

\* the checkouts one source of a property contributes; `event` names the feed
\* entry the checkout was parsed from (history only, not a field of the object)
sourceCheckouts(p, source, failed, now) ==
    LET url == icalUrl(p, source)
        evs == IF url = NoUrl THEN <<>>
               ELSE filterCheckoutsForDate(fetchEvents(url, failed), Now)
    IN  Map(LAMBDA e : [uid |-> parseEvent(e, now).uid,
                        source |-> source,
                        propertyId |-> p,
                        propertyName |-> PropertyName(p),
                        event |-> e.id], evs)

\* a reader in which a failed fetch loses the whole property
getCheckoutsAbortOnFailure(p, failed, now) ==
    IF \E source \in {"airbnb", "booking"} : icalUrl(p, source) \in failed THEN <<>>
    ELSE sourceCheckouts(p, "airbnb", failed, now) \o sourceCheckouts(p, "booking", failed, now)

getCheckoutsForProperty(p, failed, now) ==
    sourceCheckouts(p, "airbnb", failed, now) \o sourceCheckouts(p, "booking", failed, now)

(***************************************************************************)
(* Deduplication ledger (processed_events)                                 *)
(***************************************************************************)
\* a row of processed_events; `event` is history: the feed entry it was written for
LedgerRow(p, uid, date, type, event) ==
    [propertyId |-> p, eventUid |-> uid, eventDate |-> date, eventType |-> type,
     event |-> event]

\* the unique key (propertyId, eventUid, eventDate[, eventType])
sameIdentity(a, b) ==
    /\ a.propertyId = b.propertyId
    /\ a.eventUid = b.eventUid
    /\ a.eventDate = b.eventDate
    /\ a.eventType = b.eventType

\* prisma.processedEvent.findFirst({ propertyId, eventUid, eventDate })
findProcessed(ledger, p, uid, date) ==
    \E k \in 1..Len(ledger) :
        /\ ledger[k].propertyId = p
        /\ ledger[k].eventUid = uid
        /\ ledger[k].eventDate = date

\* an upsert that adds its row whether or not the identity is present
insertRow(ledger, row) == Append(ledger, row)

\* prisma.processedEvent.upsert / INSERT OR IGNORE on the unique key
upsert(ledger, row) ==
    IF \E k \in 1..Len(ledger) : sameIdentity(ledger[k], row) THEN ledger
    ELSE Append(ledger, row)

RECURSIVE upsertAll(_, _)
upsertAll(ledger, rows) ==
    IF rows = <<>> THEN ledger
    ELSE upsertAll(upsert(ledger, Head(rows)), Tail(rows))

(***************************************************************************)
(* WorkerService: grouping and message building                            *)
(***************************************************************************)
RECURSIVE firstPhones(_, _)
firstPhones(checkouts, seen) ==
    IF checkouts = <<>> THEN <<>>
    ELSE IF Head(checkouts).employeePhone \in seen
         THEN firstPhones(Tail(checkouts), seen)
         ELSE <<Head(checkouts).employeePhone>>
              \o firstPhones(Tail(checkouts), seen \cup {Head(checkouts).employeePhone})

\* a grouping that opens a new entry per checkout instead of per phone
groupPerCheckout(checkouts) ==
    Map(LAMBDA c : [phone |-> c.employeePhone, employeeName |-> c.employeeName,
                    checkouts |-> <<c>>], checkouts)

\* groupByEmployee: one entry per phone, in order of first appearance
groupByEmployee(checkouts) ==
    Map(LAMBDA ph :
          LET mine == SelectSeq(checkouts, LAMBDA c : c.employeePhone = ph)
          IN  [phone |-> ph, employeeName |-> mine[1].employeeName, checkouts |-> mine],
        firstPhones(checkouts, {}))

propertyList(checkouts) ==
    Flatten(Map(LAMBDA c : <<"*", c.propertyName, "as", c.checkoutTime>>, checkouts))

multiMessage(data) ==
    <<"Ola", data.employeeName, "Hoje voce tem", ToString(Len(data.checkouts)), "limpezas:">>
    \o propertyList(data.checkouts) \o <<"Bom trabalho!">>

\* buildMessage: the built-in default
buildMessage(data) ==
    IF Len(data.checkouts) = 1
    THEN <<"Ola", data.employeeName, "Hoje tem limpeza no", data.checkouts[1].propertyName,
           "as", data.checkouts[1].checkoutTime, "Bom trabalho!">>
    ELSE multiMessage(data)

\* String.replace(/token/gi, value) on a tokenised text
replaceAll(text, token, value) ==
    [k \in 1..Len(text) |-> IF text[k] = token THEN value ELSE text[k]]

\* buildMessageFromTemplate: the stored template for one checkout, the
\* built-in list for several
buildMessageFromTemplate(template, data) ==
    IF Len(data.checkouts) = 1
    THEN replaceAll(
           replaceAll(
             replaceAll(template, "(nome da funcionaria)", data.employeeName),
             "(nome do imovel)", data.checkouts[1].propertyName),
           "(horario)", data.checkouts[1].checkoutTime)
    ELSE multiMessage(data)

renderMessage(template, data) ==
    IF template # NoTemplate THEN buildMessageFromTemplate(template, data)
    ELSE buildMessage(data)

(***************************************************************************)
(* WorkerService: the read phase of processCheckoutsForUser                *)
(***************************************************************************)
userProperties(u) == SetToSeq({p \in Properties : userId[p] = u})

checkoutTimeOf(p) ==
    IF PropertyCheckoutTime(p) # "null" THEN PropertyCheckoutTime(p) ELSE DefaultCheckoutTime

\* lines 111-144: the not yet processed checkouts of a list of properties
collectCheckouts(props, ledger, failed, now) ==
    Flatten(Map(LAMBDA p :
        Map(LAMBDA c : [uid |-> c.uid, source |-> c.source, propertyId |-> c.propertyId,
                        propertyName |-> c.propertyName, event |-> c.event,
                        employeeName |-> EmployeeName(p),
                        employeePhone |-> employeePhone[p],
                        checkoutTime |-> checkoutTimeOf(p)],
            SelectSeq(getCheckoutsForProperty(p, failed, now),
                      LAMBDA c : ~findProcessed(ledger, p, c.uid, today))),
        props))

(***************************************************************************)
(* WhatsAppService                                                         *)
(***************************************************************************)
\* client.on('ready')
Ready ==
    /\ status # "connected"
    /\ status' = "connected"
    /\ UNCHANGED <<employeePhone, userId, messageTemplate, processedEvent,
                   messageLog, sendCalls, planned, isRunning, inv, triggers>>
    /\ UNCHANGED notWorker

\* client.on('disconnected') / client.on('auth_failure')
Disconnected ==
    /\ status = "connected"
    /\ status' = "disconnected"
    /\ UNCHANGED <<employeePhone, userId, messageTemplate, processedEvent,
                   messageLog, sendCalls, planned, isRunning, inv, triggers>>
    /\ UNCHANGED notWorker

\* sendMessage resolves iff the session is connected and the client call succeeds
sendMessageOk(st, clientOk) == st = "connected" /\ clientOk

(***************************************************************************)
(* WorkerService: invocations                                              *)
(***************************************************************************)
\* where an invocation continues once processCheckoutsForUser has returned
afterReturn(rest, t) ==
    IF rest = <<>> THEN Idle ELSE [Idle EXCEPT !.pc = "users", !.users = rest, !.trigger = t]

\* processCheckoutsForUser up to its first await (lines 67-86): the guard,
\* the flag, the status check and the finally of the early return
enterUser(i, u, rest, t) ==
    IF isRunning
    THEN /\ inv' = [inv EXCEPT ![i] = afterReturn(rest, t)]
         /\ UNCHANGED isRunning
    ELSE IF status # "connected"
    THEN /\ isRunning' = FALSE
         /\ inv' = [inv EXCEPT ![i] = afterReturn(rest, t)]
    ELSE /\ isRunning' = TRUE
         /\ inv' = [inv EXCEPT ![i] = [Idle EXCEPT !.pc = "collect", !.user = u,
                                                  !.users = rest, !.trigger = t,
                                                  !.seen = status]]

\* processAllUsers up to the end of user.findMany (lines 41-57)
processAllUsers(i, t) ==
    IF status # "connected"
    THEN UNCHANGED inv
    ELSE inv' = [inv EXCEPT ![i] =
                   afterReturn(SetToSeq({u \in Users : \E p \in Properties : userId[p] = u}), t)]

\* the 08:00 cron callback of start()
CronTick ==
    /\ inv["cron"].pc = "idle"
    /\ triggers < MaxTriggers
    /\ triggers' = triggers + 1
    /\ processAllUsers("cron", triggers + 1)
    /\ UNCHANGED <<status, employeePhone, userId, messageTemplate, processedEvent,
                   messageLog, sendCalls, planned, isRunning>>
    /\ UNCHANGED notWorker

\* runNow() without a user (POST /api/dashboard/run-worker of the single-tenant routes)
RunNowAll ==
    /\ inv["manual"].pc = "idle"
    /\ triggers < MaxTriggers
    /\ triggers' = triggers + 1
    /\ processAllUsers("manual", triggers + 1)
    /\ UNCHANGED <<status, employeePhone, userId, messageTemplate, processedEvent,
                   messageLog, sendCalls, planned, isRunning>>
    /\ UNCHANGED notWorker

\* runNow(userId) (POST /api/dashboard/run-worker)
RunNowUser(u) ==
    /\ inv["manual"].pc = "idle"
    /\ triggers < MaxTriggers
    /\ triggers' = triggers + 1
    /\ enterUser("manual", u, <<>>, triggers + 1)
    /\ UNCHANGED <<status, employeePhone, userId, messageTemplate, processedEvent,
                   messageLog, sendCalls, planned>>
    /\ UNCHANGED notWorker

\* the for loop of processAllUsers (lines 59-61): the next user
NextUser(i) ==
    /\ inv[i].pc = "users"
    /\ enterUser(i, Head(inv[i].users), Tail(inv[i].users), inv[i].trigger)
    /\ UNCHANGED <<status, employeePhone, userId, messageTemplate, processedEvent,
                   messageLog, sendCalls, planned, triggers>>
    /\ UNCHANGED notWorker

\* `run`, `seen` and `event` are history: the run that wrote a row, the
\* status that run read on entry, and the feed entry the row is about
runOf(r) == <<r.trigger, r.user>>

\* Date.now() while an invocation parses its calendars: firings happen at
\* distinct instants, numbered in order
DateNow(r) == r.trigger

\* the read phase up to the grouping (lines 108-152; lines 61-91 of the sql.js
\* build); the calendar host answers every fetch of the invocation or none
collectStep(i, props, template) ==
    \E failed \in {{}, Urls} :
        LET allCheckouts == collectCheckouts(props, processedEvent, failed, DateNow(inv[i]))
        IN  IF props = <<>> \/ allCheckouts = <<>>
            THEN /\ isRunning' = FALSE
                 /\ inv' = [inv EXCEPT ![i] = afterReturn(inv[i].users, inv[i].trigger)]
                 /\ UNCHANGED planned
            ELSE /\ isRunning' = isRunning
                 /\ planned' = Append(planned, [run |-> runOf(inv[i]),
                                                checkouts |-> allCheckouts])
                 /\ inv' = [inv EXCEPT ![i].pc = "send",
                                       ![i].groups = groupByEmployee(allCheckouts),
                                       ![i].template = template]

\* lines 86-152: settings, the user's properties, calendars, ledger reads, grouping
Collect(i) ==
    /\ inv[i].pc = "collect"
    /\ collectStep(i, userProperties(inv[i].user), messageTemplate)
    /\ UNCHANGED <<status, employeePhone, userId, messageTemplate, processedEvent,
                   messageLog, sendCalls, triggers>>
    /\ UNCHANGED notWorker

sentRows(r, phone, message, checkouts) ==
    Map(LAMBDA c : [propertyId |-> c.propertyId, employeePhone |-> phone,
                    message |-> message, status |-> "sent", run |-> runOf(r),
                    seen |-> r.seen, event |-> c.event], checkouts)

failedRow(r, phone, message, checkouts) ==
    [propertyId |-> checkouts[1].propertyId, employeePhone |-> phone,
     message |-> message, status |-> "failed", run |-> runOf(r),
     seen |-> r.seen, event |-> checkouts[1].event]

ledgerRows(checkouts) ==
    Map(LAMBDA c : LedgerRow(c.propertyId, c.uid, today, "checkout", c.event), checkouts)

\* the effect of one sendMessage call on the logs and the ledger (lines 161-207)
dispatch(i, ok) ==
    LET data == Head(inv[i].groups)
        message == renderMessage(inv[i].template, data)
    IN  /\ sendCalls' = Append(sendCalls,
               [run |-> runOf(inv[i]), entry |-> i, seen |-> inv[i].seen, phone |-> data.phone,
                message |-> message, ok |-> ok, checkouts |-> data.checkouts])
        /\ IF ok
           THEN /\ messageLog' = messageLog
                     \o sentRows(inv[i], data.phone, message, data.checkouts)
                /\ processedEvent' = upsertAll(processedEvent, ledgerRows(data.checkouts))
           ELSE /\ messageLog' = Append(messageLog,
                     failedRow(inv[i], data.phone, message, data.checkouts))
                /\ UNCHANGED processedEvent

\* a send loop whose catch leaves the loop: the first failure ends the run
SendStopsAtFailure(i) ==
    /\ inv[i].pc = "send"
    /\ \E clientOk \in BOOLEAN :
         /\ dispatch(i, sendMessageOk(status, clientOk))
         /\ IF Tail(inv[i].groups) = <<>> \/ ~sendMessageOk(status, clientOk)
            THEN /\ isRunning' = FALSE
                 /\ inv' = [inv EXCEPT ![i] = afterReturn(inv[i].users, inv[i].trigger)]
            ELSE /\ isRunning' = isRunning
                 /\ inv' = [inv EXCEPT ![i].groups = Tail(inv[i].groups)]
    /\ UNCHANGED <<status, employeePhone, userId, messageTemplate, planned, triggers>>
    /\ UNCHANGED notWorker

\* one iteration of the send loop (lines 155-208), and lines 210-216 after the last
Send(i) ==
    /\ inv[i].pc = "send"
    /\ \E clientOk \in BOOLEAN : dispatch(i, sendMessageOk(status, clientOk))
    /\ IF Tail(inv[i].groups) = <<>>
       THEN /\ isRunning' = FALSE
            /\ inv' = [inv EXCEPT ![i] = afterReturn(inv[i].users, inv[i].trigger)]
       ELSE /\ isRunning' = isRunning
            /\ inv' = [inv EXCEPT ![i].groups = Tail(inv[i].groups)]
    /\ UNCHANGED <<status, employeePhone, userId, messageTemplate, planned, triggers>>
    /\ UNCHANGED notWorker

(***************************************************************************)
(* Spec: the worker of the Prisma build                                    *)
(***************************************************************************)
\* the services as their constructors leave them
InitServices ==
    /\ scheduler = Constructed
    /\ calendarCache = [u \in CacheUrls |-> NotCached]
    /\ calendarFetch = [c \in Callers |-> NoCall]
    /\ feedContent = [u \in CacheUrls |-> "A"]
    /\ guestReservation = Booked
    /\ dailyRun = NoDailyRun
    /\ syncRun = NoSyncRun
    /\ webhook = NoDelivery

InitData ==
    /\ processedEvent = <<>>
    /\ messageLog = <<>>
    /\ sendCalls = <<>>
    /\ planned = <<>>
    /\ triggers = 0
    /\ isRunning = FALSE
    /\ inv = [i \in Invocations |-> Idle]
    /\ notificationLog = <<>>
    /\ notificationQueue = <<>>
    /\ cleaning = [i \in Invocations |-> Resting]
    /\ jobRun = <<>>
    /\ auditLog = <<>>
    /\ rejections = <<>>
    /\ responses = <<>>
    /\ fetchRun = NotFetched
    /\ libCall = [fn |-> "none"]
    /\ reservation = <<>>
    /\ InitServices

Init ==
    /\ InitData
    /\ fetchFailed = {}
    /\ useRedis = FALSE
    /\ cleaningTemplate = NoTemplate
    /\ status = "disconnected"
    /\ \E ph \in Phones :
         employeePhone = [p \in Properties |->
                            IF p = 1 THEN "11999990001"
                            ELSE IF p = 2 THEN ph ELSE "11999990002"]
    /\ \E u \in Users :
         userId = [p \in Properties |-> IF p = 1 THEN 1 ELSE IF p = 2 THEN u ELSE 2]
    /\ messageTemplate \in {NoTemplate, ExampleTemplate}

Next ==
    \/ Ready
    \/ Disconnected
    \/ CronTick
    \/ RunNowAll
    \/ \E u \in Users : RunNowUser(u)
    \/ \E i \in Invocations : NextUser(i)
    \/ \E i \in Invocations : Collect(i)
    \/ \E i \in Invocations : Send(i)

Spec == Init /\ [][Next]_vars

(***************************************************************************)
(* SpecLegacy: the worker of the sql.js build                              *)
(***************************************************************************)
\* processCheckouts up to its first await (lines 39-65): the guard and the flag,
\* no look at the channel
processCheckouts(i, t) ==
    IF isRunning
    THEN UNCHANGED <<inv, isRunning>>
    ELSE /\ isRunning' = TRUE
         /\ inv' = [inv EXCEPT ![i] = [Idle EXCEPT !.pc = "collect", !.trigger = t,
                                                  !.seen = status]]

\* the 08:00 cron callback of start()
LegacyCronTick ==
    /\ inv["cron"].pc = "idle"
    /\ triggers < MaxTriggers
    /\ triggers' = triggers + 1
    /\ processCheckouts("cron", triggers + 1)
    /\ UNCHANGED <<status, employeePhone, userId, messageTemplate, processedEvent,
                   messageLog, sendCalls, planned>>
    /\ UNCHANGED notWorker

\* runNow()
LegacyRunNow ==
    /\ inv["manual"].pc = "idle"
    /\ triggers < MaxTriggers
    /\ triggers' = triggers + 1
    /\ processCheckouts("manual", triggers + 1)
    /\ UNCHANGED <<status, employeePhone, userId, messageTemplate, processedEvent,
                   messageLog, sendCalls, planned>>
    /\ UNCHANGED notWorker

\* lines 49-91: default time, all properties, calendars, ledger reads, grouping
LegacyCollect(i) ==
    /\ inv[i].pc = "collect"
    /\ collectStep(i, SetToSeq(Properties), NoTemplate)
    /\ UNCHANGED <<status, employeePhone, userId, messageTemplate, processedEvent,
                   messageLog, sendCalls, triggers>>
    /\ UNCHANGED notWorker

InitLegacy ==
    /\ InitData
    /\ fetchFailed = {}
    /\ useRedis = FALSE
    /\ cleaningTemplate = NoTemplate
    /\ status = "disconnected"
    /\ \E ph \in Phones :
         employeePhone = [p \in Properties |->
                            IF p = 1 THEN "11999990001"
                            ELSE IF p = 2 THEN ph ELSE "11999990002"]
    /\ userId = [p \in Properties |-> 1]
    /\ messageTemplate = NoTemplate

NextLegacy ==
    \/ Ready
    \/ Disconnected
    \/ LegacyCronTick
    \/ LegacyRunNow
    \/ \E i \in Invocations : LegacyCollect(i)
    \/ \E i \in Invocations : Send(i)

SpecLegacy == InitLegacy /\ [][NextLegacy]_vars

(***************************************************************************)
(* Properties of the worker                                                *)
(***************************************************************************)
EventIds == {"e1", "e2", "e3", "e4", "e5", "e6"}

Range(s) == {s[k] : k \in 1..Len(s)}

callsOf(run) == SelectSeq(sendCalls, LAMBDA c : c.run = run)

rowsOf(run, phone, st) ==
    Count(messageLog, LAMBDA row : row.run = run /\ row.employeePhone = phone
                                   /\ row.status = st)

running(run) == \E i \in Invocations : inv[i].pc = "send" /\ runOf(inv[i]) = run

\* C1: however often the pipeline runs on a day, a feed entry is covered by at
\* most one 'sent' message-log row and has at most one processed-event row,
\* whether or not the entry carries a UID.
SequentialIdempotency ==
    \A e \in EventIds :
        /\ Count(messageLog, LAMBDA row : row.status = "sent" /\ row.event = e) <= 1
        /\ Count(processedEvent, LAMBDA row : row.event = e) <= 1

\* C5: a run that finds the channel not connected when it starts makes no
\* sendMessage call and writes no message-log row: every call and every row
\* belongs to a run that started with the channel connected.
FailFastDisconnected ==
    /\ \A c \in Range(sendCalls) : c.seen = "connected"
    /\ \A row \in Range(messageLog) : row.seen = "connected"

\* C6: once a run has left its send loop every recipient it planned has been
\* called, whatever the outcome of the calls before; a call that failed left
\* exactly one 'failed' row and no 'sent' row, a call that succeeded left one
\* 'sent' row per checkout of the recipient and no 'failed' row.
PartialFailureIsolation ==
    \A k \in 1..Len(planned) :
        LET run == planned[k].run
            calls == callsOf(run)
            recipients == {c.employeePhone : c \in Range(planned[k].checkouts)}
        IN  /\ {c.phone : c \in Range(calls)} \subseteq recipients
            /\ ~running(run) => {c.phone : c \in Range(calls)} = recipients
            /\ \A c \in Range(calls) :
                 IF c.ok
                 THEN /\ rowsOf(run, c.phone, "sent") = Len(c.checkouts)
                      /\ rowsOf(run, c.phone, "failed") = 0
                 ELSE /\ rowsOf(run, c.phone, "failed") = 1
                      /\ rowsOf(run, c.phone, "sent") = 0

\* C6 witness: in one run the call to a recipient failed and the call to the
\* recipient after it succeeded
FailureThenSent ==
    \E j \in 1..Len(sendCalls) : \E k \in 1..Len(sendCalls) :
        /\ j < k
        /\ sendCalls[j].run = sendCalls[k].run
        /\ ~sendCalls[j].ok
        /\ sendCalls[k].ok
        /\ rowsOf(sendCalls[k].run, sendCalls[k].phone, "sent") > 0

CleaningTemplate == <<"Limpeza:", "{{employee_name}}", "{{property_name}}",
                      "{{checkout_time}}">>

\* formatDate / formatCurrency: pt-BR renderings of a date and of an amount
formatDate(d) == "dd/mm/yyyy(" \o d \o ")"

formatCurrency(a) == "R$(" \o a \o ")"

\* `x || fallback` on strings
orElse(x, fallback) == IF x = "" THEN fallback ELSE x

\* the data object of a notification; an absent field is ""
TemplateData == [guestName |-> "", propertyName |-> "", checkinDate |-> "",
                 checkoutDate |-> "", checkinTime |-> "", checkoutTime |-> "",
                 wifiName |-> "", wifiPassword |-> "", accessInstructions |-> "",
                 employeeName |-> "", totalAmount |-> "", reservationId |-> "",
                 adults |-> "", children |-> ""]

\* the replacements of processTemplate, in the order the object lists them
replacements(data) ==
    << <<"{{guest_name}}", data.guestName>>,
       <<"{{property_name}}", data.propertyName>>,
       <<"{{checkin_date}}", IF data.checkinDate # "" THEN formatDate(data.checkinDate) ELSE "">>,
       <<"{{checkout_date}}", IF data.checkoutDate # "" THEN formatDate(data.checkoutDate) ELSE "">>,
       <<"{{checkin_time}}", data.checkinTime>>,
       <<"{{checkout_time}}", data.checkoutTime>>,
       <<"{{wifi_name}}", data.wifiName>>,
       <<"{{wifi_password}}", data.wifiPassword>>,
       <<"{{access_instructions}}", data.accessInstructions>>,
       <<"{{employee_name}}", data.employeeName>>,
       <<"{{total_amount}}", IF data.totalAmount # "" THEN formatCurrency(data.totalAmount) ELSE "">>,
       <<"{{reservation_id}}", data.reservationId>>,
       <<"{{adults}}", orElse(data.adults, "1")>>,
       <<"{{children}}", orElse(data.children, "0")>> >>

\* the replacement patterns of String.prototype.replace: $$ inserts one $,
\* $& inserts the matched substring
expandReplacement(value, matched) ==
    CASE value = "$&" -> matched
      [] value = "Pa$$word" -> "Pa$word"
      [] OTHER -> value

\* result.replace(new RegExp(placeholder, 'g'), value)
replaceRegExp(text, placeholder, value) ==
    replaceAll(text, placeholder, expandReplacement(value, placeholder))

RECURSIVE applyReplacements(_, _)
applyReplacements(text, reps) ==
    IF reps = <<>> THEN text
    ELSE applyReplacements(replaceRegExp(text, Head(reps)[1], Head(reps)[2]), Tail(reps))

processTemplate(template, data) == applyReplacements(template, replacements(data))

\* sendCleaningNotification: the text sent for a property and its checkouts
cleaningMessage(property, checkouts, template) ==
    LET data == [TemplateData EXCEPT
                    !.employeeName = EmployeeName(property),
                    !.propertyName = PropertyName(property),
                    !.checkoutTime = orElse(checkouts[1].checkoutTime,
                                            checkoutTimeOf(property))]
    IN  IF template # NoTemplate THEN processTemplate(template, data)
        ELSE IF Len(checkouts) = 1
        THEN <<"Ola", data.employeeName, "Hoje tem limpeza no", data.propertyName,
               "as", data.checkoutTime, "Bom trabalho!">>
        ELSE <<"Ola", data.employeeName, "Hoje voce tem", ToString(Len(checkouts)),
               "limpezas:">> \o propertyList(checkouts) \o <<"Bom trabalho!">>

\* processCleaningNotification -> sendCleaningNotification -> send: one
\* attempt on the channel and one notificationLog row; never throws
deliver(job, clientOk) ==
    LET message == cleaningMessage(job.propertyId, job.checkouts, cleaningTemplate)
        ok == sendMessageOk(status, clientOk)
    IN  /\ sendCalls' = Append(sendCalls,
               [run |-> job.trigger, phone |-> employeePhone[job.propertyId],
                message |-> message, ok |-> ok, checkouts |-> job.checkouts])
        /\ notificationLog' = Append(notificationLog,
               [type |-> "cleaning", channel |-> "whatsapp",
                recipient |-> employeePhone[job.propertyId], message |-> message,
                status |-> IF ok THEN "sent" ELSE "failed", run |-> job.trigger])

(***************************************************************************)
(* SchedulerService.sendCleaningNotifications                              *)
(***************************************************************************)
\* the active properties with a confirmed reservation that checks out today
propertiesWithCheckout == SetToSeq(Properties)

\* lines 311-330: one entry per phone, in insertion order of the Map
byEmployee(props) ==
    groupByEmployee(Map(LAMBDA p : [propertyId |-> p,
                                    propertyName |-> PropertyName(p),
                                    checkoutTime |-> checkoutTimeOf(p),
                                    employeePhone |-> employeePhone[p],
                                    employeeName |-> EmployeeName(p)], props))

cleaningUid == "cleaning-" \o ToString(today)

\* lines 339-345: findFirst({ propertyId, eventDate: today, eventType: 'checkout' })
alreadySent(ledger, p) ==
    \E k \in 1..Len(ledger) :
        /\ ledger[k].propertyId = p
        /\ ledger[k].eventDate = today
        /\ ledger[k].eventType = "checkout"

\* where the loop over byEmployee continues
nextGroup(c) ==
    IF Tail(c.groups) = <<>>
    THEN [c EXCEPT !.pc = "done", !.groups = <<>>, !.marks = <<>>]
    ELSE [c EXCEPT !.pc = "check", !.groups = Tail(c.groups), !.marks = <<>>]

\* sendCleaningNotifications up to property.findMany (lines 273-285)
startCleaning(i) ==
    /\ cleaning[i].pc = "idle"
    /\ triggers < MaxTriggers
    /\ triggers' = triggers + 1
    /\ cleaning' = [cleaning EXCEPT ![i] =
          IF status # "connected"
          THEN [Resting EXCEPT !.pc = "done", !.trigger = triggers + 1,
                               !.reason = "whatsapp_disconnected"]
          ELSE [Resting EXCEPT !.pc = "query", !.trigger = triggers + 1]]
    /\ UNCHANGED <<status, employeePhone, processedEvent, sendCalls, useRedis,
                   cleaningTemplate, notificationLog, notificationQueue>>
    /\ UNCHANGED notCleaning

\* the 07:00 cron callback of the job 'cleaning-notifications'
CleaningCron == startCleaning("cron")

\* runJob('cleaning-notifications') (POST /api/automation/jobs/:name/run)
CleaningRunJob == startCleaning("manual")

\* lines 285-332: the query and the grouping
CleaningQuery(i) ==
    /\ cleaning[i].pc = "query"
    /\ LET groups == byEmployee(propertiesWithCheckout)
       IN  cleaning' = [cleaning EXCEPT ![i].groups = groups,
                                        ![i].pc = IF groups = <<>> THEN "done" ELSE "check"]
    /\ UNCHANGED <<status, employeePhone, processedEvent, sendCalls, useRedis,
                   cleaningTemplate, notificationLog, notificationQueue, triggers>>
    /\ UNCHANGED notCleaning

\* lines 339-350: the already-notified check of the next recipient
CleaningCheck(i) ==
    /\ cleaning[i].pc = "check"
    /\ cleaning' = [cleaning EXCEPT ![i] =
          IF alreadySent(processedEvent, Head(cleaning[i].groups).checkouts[1].propertyId)
          THEN nextGroup(cleaning[i])
          ELSE [cleaning[i] EXCEPT !.pc = "dispatch"]]
    /\ UNCHANGED <<status, employeePhone, processedEvent, sendCalls, useRedis,
                   cleaningTemplate, notificationLog, notificationQueue, triggers>>
    /\ UNCHANGED notCleaning

\* lines 352-355: addNotificationJob('cleaning', ...): queue.add with Redis,
\* processNotificationSync without
CleaningDispatch(i) ==
    /\ cleaning[i].pc = "dispatch"
    /\ LET data == Head(cleaning[i].groups)
           job == [type |-> "cleaning", propertyId |-> data.checkouts[1].propertyId,
                   checkouts |-> data.checkouts, trigger |-> cleaning[i].trigger]
       IN  /\ IF useRedis
              THEN /\ notificationQueue' = Append(notificationQueue, job)
                   /\ UNCHANGED <<sendCalls, notificationLog>>
              ELSE /\ \E clientOk \in BOOLEAN : deliver(job, clientOk)
                   /\ UNCHANGED notificationQueue
           /\ cleaning' = [cleaning EXCEPT ![i].pc = "mark", ![i].marks = data.checkouts]
    /\ UNCHANGED <<status, employeePhone, processedEvent, useRedis, cleaningTemplate,
                   triggers>>
    /\ UNCHANGED notCleaning

\* lines 358-378: one upsert of the marking loop, and sent++ after the last
CleaningMark(i) ==
    /\ cleaning[i].pc = "mark"
    /\ LET checkout == Head(cleaning[i].marks)
           c == [cleaning[i] EXCEPT !.marked = @ \cup {checkout.propertyId},
                                    !.marks = Tail(@)]
       IN  /\ processedEvent' = upsert(processedEvent,
                  LedgerRow(checkout.propertyId, cleaningUid, today, "checkout", ""))
           /\ cleaning' = [cleaning EXCEPT ![i] =
                  IF c.marks = <<>> THEN nextGroup([c EXCEPT !.sent = @ + 1]) ELSE c]
    /\ UNCHANGED <<status, employeePhone, sendCalls, useRedis, cleaningTemplate,
                   notificationLog, notificationQueue, triggers>>
    /\ UNCHANGED notCleaning

\* return { sent } to the cron wrapper or to the route
CleaningReturn(i) ==
    /\ cleaning[i].pc = "done"
    /\ cleaning' = [cleaning EXCEPT ![i] = Resting]
    /\ UNCHANGED <<status, employeePhone, processedEvent, sendCalls, useRedis,
                   cleaningTemplate, notificationLog, notificationQueue, triggers>>
    /\ UNCHANGED notCleaning

\* notificationQueue.process: the Bull worker takes the oldest job
QueueProcess ==
    /\ notificationQueue # <<>>
    /\ \E clientOk \in BOOLEAN : deliver(Head(notificationQueue), clientOk)
    /\ notificationQueue' = Tail(notificationQueue)
    /\ UNCHANGED <<status, employeePhone, processedEvent, useRedis, cleaningTemplate,
                   cleaning, triggers>>
    /\ UNCHANGED notCleaning

InitSched ==
    /\ InitData
    /\ fetchFailed = {}
    /\ useRedis \in BOOLEAN
    /\ cleaningTemplate \in {NoTemplate, CleaningTemplate}
    /\ status = "disconnected"
    /\ \E ph \in Phones :
         employeePhone = [p \in Properties |->
                            IF p = 1 THEN "11999990001"
                            ELSE IF p = 2 THEN ph ELSE "11999990002"]
    /\ userId = [p \in Properties |-> 1]
    /\ messageTemplate = NoTemplate

NextSched ==
    \/ Ready
    \/ Disconnected
    \/ CleaningCron
    \/ CleaningRunJob
    \/ \E i \in Invocations : CleaningQuery(i)
    \/ \E i \in Invocations : CleaningCheck(i)
    \/ \E i \in Invocations : CleaningDispatch(i)
    \/ \E i \in Invocations : CleaningMark(i)
    \/ \E i \in Invocations : CleaningReturn(i)
    \/ QueueProcess

SpecSched == InitSched /\ [][NextSched]_vars

(***************************************************************************)
(* SchedulerService: the job wrapper (addJob) and runJob                   *)
(***************************************************************************)
\* the 08:00 callback WorkerService.start registers
WorkerJob == "worker"

removeAt(s, k) == SubSeq(s, 1, k - 1) \o SubSeq(s, k + 1, Len(s))

\* a tick of the cron expression of `name`: the callback of addJob is entered
\* and awaits handler()
CronFire(name) ==
    /\ triggers < MaxTriggers
    /\ triggers' = triggers + 1
    /\ jobRun' = Append(jobRun, [name |-> name, entry |-> "cron", pc |-> "handler",
                                 trigger |-> triggers + 1])
    /\ UNCHANGED <<auditLog, rejections, responses>>
    /\ UNCHANGED notJobs

\* POST /api/automation/jobs/:name/run: runJob(name) returns the body's promise,
\* or throws for a name outside the switch and the route answers 500
RunJob(name) ==
    /\ triggers < MaxTriggers
    /\ triggers' = triggers + 1
    /\ IF name \in JobNames
       THEN /\ jobRun' = Append(jobRun, [name |-> name, entry |-> "runJob",
                                         pc |-> "handler", trigger |-> triggers + 1])
            /\ UNCHANGED responses
       ELSE /\ responses' = Append(responses, [name |-> name, code |-> 500])
            /\ UNCHANGED jobRun
    /\ UNCHANGED <<auditLog, rejections>>
    /\ UNCHANGED notJobs

\* the body resolves: the wrapper logs the duration, the route answers 200
HandlerReturns(k) ==
    /\ k \in 1..Len(jobRun)
    /\ jobRun[k].pc = "handler"
    /\ jobRun[k].name \in JobNames
    /\ jobRun' = removeAt(jobRun, k)
    /\ responses' = IF jobRun[k].entry = "runJob"
                    THEN Append(responses, [name |-> jobRun[k].name, code |-> 200])
                    ELSE responses
    /\ UNCHANGED <<auditLog, rejections, triggers>>
    /\ UNCHANGED notJobs

\* the body rejects: the wrapper's catch goes on to auditLog.create, the
\* route's catch answers 500
HandlerThrows(k) ==
    /\ k \in 1..Len(jobRun)
    /\ jobRun[k].pc = "handler"
    /\ jobRun[k].name \in JobNames
    /\ IF jobRun[k].entry = "cron"
       THEN /\ jobRun' = [jobRun EXCEPT ![k].pc = "audit"]
            /\ UNCHANGED responses
       ELSE /\ jobRun' = removeAt(jobRun, k)
            /\ responses' = Append(responses, [name |-> jobRun[k].name, code |-> 500])
    /\ UNCHANGED <<auditLog, rejections, triggers>>
    /\ UNCHANGED notJobs

\* prisma.auditLog.create inside the catch of the wrapper: it writes the
\* job_failed row, or rejects and the rejection leaves the callback
AuditLogCreate(k) ==
    /\ k \in 1..Len(jobRun)
    /\ jobRun[k].pc = "audit"
    /\ jobRun' = removeAt(jobRun, k)
    /\ \E written \in BOOLEAN :
         IF written
         THEN /\ auditLog' = Append(auditLog, [action |-> "job_failed",
                                               entity |-> "scheduler",
                                               job |-> jobRun[k].name])
              /\ UNCHANGED rejections
         ELSE /\ rejections' = Append(rejections, [name |-> jobRun[k].name,
                                                   at |-> "auditLog.create"])
              /\ UNCHANGED auditLog
    /\ UNCHANGED <<responses, triggers>>
    /\ UNCHANGED notJobs

\* the worker's 08:00 callback: processAllUsers() is called and not awaited
WorkerCronFire ==
    /\ triggers < MaxTriggers
    /\ triggers' = triggers + 1
    /\ jobRun' = Append(jobRun, [name |-> WorkerJob, entry |-> "cron",
                                 pc |-> "handler", trigger |-> triggers + 1])
    /\ UNCHANGED <<auditLog, rejections, responses>>
    /\ UNCHANGED notJobs

\* processAllUsers settles: it resolves, or user.findMany rejects and nothing
\* holds the promise
WorkerSettles(k) ==
    /\ k \in 1..Len(jobRun)
    /\ jobRun[k].name = WorkerJob
    /\ jobRun' = removeAt(jobRun, k)
    /\ \E resolved \in BOOLEAN :
         rejections' = IF resolved THEN rejections
                       ELSE Append(rejections, [name |-> WorkerJob, at |-> "user.findMany"])
    /\ UNCHANGED <<auditLog, responses, triggers>>
    /\ UNCHANGED notJobs

InitJobs ==
    /\ InitData
    /\ fetchFailed = {}
    /\ useRedis = FALSE
    /\ cleaningTemplate = NoTemplate
    /\ status = "disconnected"
    /\ employeePhone = [p \in Properties |-> "11999990001"]
    /\ userId = [p \in Properties |-> 1]
    /\ messageTemplate = NoTemplate

NextJobs ==
    \/ \E name \in JobNames : CronFire(name)
    \/ \E name \in JobNames \cup {"unknown"} : RunJob(name)
    \/ \E k \in 1..MaxTriggers : HandlerReturns(k)
    \/ \E k \in 1..MaxTriggers : HandlerThrows(k)
    \/ \E k \in 1..MaxTriggers : AuditLogCreate(k)
    \/ WorkerCronFire
    \/ \E k \in 1..MaxTriggers : WorkerSettles(k)

SpecJobs == InitJobs /\ [][NextJobs]_vars

\* C3: no two invocations of the same job name execute concurrently: a firing
\* by cron or by runJob while the name is running does not run the body
SingleFlight ==
    \A j, k \in 1..Len(jobRun) :
        (jobRun[j].name \in JobNames /\ jobRun[j].name = jobRun[k].name) => j = k

\* C10: no rejection escapes a cron callback, also when writing the failure
\* record fails, and also from the worker's 08:00 callback
JobErrorIsolation == rejections = <<>>

(***************************************************************************)
(* Properties of the cleaning-notifications job                            *)
(***************************************************************************)
\* the attempts on the channel that cover property p
covering(p) ==
    {k \in 1..Len(sendCalls) :
        \E j \in 1..Len(sendCalls[k].checkouts) : sendCalls[k].checkouts[j].propertyId = p}

\* C2: when the manual trigger runs while the cron run of the same day is in
\* progress, no property is covered by more than one sent cleaning message
ConcurrentIdempotency ==
    \A p \in Properties : Cardinality({k \in covering(p) : sendCalls[k].ok}) <= 1

\* C4: a property has a ProcessedEvent row only if the message that covers it
\* was sent successfully; after a failed send its events stay unmarked
OnlySuccessMarks ==
    \A r \in 1..Len(processedEvent) :
        \E k \in covering(processedEvent[r].propertyId) : sendCalls[k].ok

\* C8: a message for N >= 2 checkouts states N and lists all N properties with
\* their checkout times, with a custom template as with the built-in default
MessageListsAll ==
    \A k \in 1..Len(sendCalls) :
        LET call == sendCalls[k]
        IN  Len(call.checkouts) >= 2 =>
              /\ ToString(Len(call.checkouts)) \in Range(call.message)
              /\ \A j \in 1..Len(call.checkouts) :
                    /\ call.checkouts[j].propertyName \in Range(call.message)
                    /\ call.checkouts[j].checkoutTime \in Range(call.message)

\* the identity the marking loop of invocation i writes next is present
marksPresent(i) ==
    /\ cleaning[i].pc = "mark"
    /\ \E k \in 1..Len(processedEvent) :
          sameIdentity(processedEvent[k],
                       LedgerRow(Head(cleaning[i].marks).propertyId, cleaningUid, today,
                                 "checkout", ""))

oneRowPerIdentity ==
    \A j, k \in 1..Len(processedEvent) :
        sameIdentity(processedEvent[j], processedEvent[k]) => j = k

ZoneOffset == 0 - 3

\* the calendar day of an instant in a zone
zoneDay(t, zone) == (t + zone) \div 24

RECURSIVE sortByStart(_)
sortByStart(events) ==
    IF events = <<>> THEN <<>>
    ELSE LET k == CHOOSE i \in 1..Len(events) :
                     /\ \A j \in 1..Len(events) : events[i].start <= events[j].start
                     /\ \A j \in 1..(i - 1) : events[j].start # events[i].start
         IN  <<events[k]>> \o sortByStart(SubSeq(events, 1, k - 1)
                                          \o SubSeq(events, k + 1, Len(events)))

\* filterEventsForDate: VEVENTs with a start whose end (or start, without an
\* end) lies between startOf('day') and endOf('day') of the target, by start
filterEventsForDate(calendarData, targetDate, timezone) ==
    sortByStart(
      SelectSeq(
        Map(LAMBDA entry : [id |-> entry.id, uid |-> entry.uid, start |-> entry.start,
                            end |-> IF entry.hasEnd THEN entry.end ELSE entry.start],
            SelectSeq(calendarData, LAMBDA entry : entry.type = "VEVENT")),
        LAMBDA event : zoneDay(event.end, timezone) = zoneDay(targetDate, timezone)))

\* buildCalendarInputs: the active calendars of the active properties
calendarInputs ==
    Flatten(Map(LAMBDA p :
        Map(LAMBDA source : [url |-> icalUrl(p, source), platform |-> source,
                             propertyId |-> p, propertyName |-> PropertyName(p)],
            Sources),
        SetToSeq(Properties)))

\* aggregateEvents: the events of every calendar, or one error entry for a
\* calendar whose fetch threw; a calendar without url gives nothing
aggregateEvents(calendars, failed, targetDate, timezone) ==
    Flatten(Map(LAMBDA calendar :
        IF calendar.url = NoUrl THEN <<>>
        ELSE IF calendar.url \in failed
        THEN <<[error |-> "Failed to fetch calendar", id |-> "", uid |-> NoUid,
                hasEnd |-> FALSE, end |-> 0, propertyId |-> calendar.propertyId,
                platform |-> calendar.platform, calendarUrl |-> calendar.url]>>
        ELSE Map(LAMBDA event : [error |-> "", id |-> event.id, uid |-> event.uid,
                                 hasEnd |-> TRUE, end |-> event.end,
                                 propertyId |-> calendar.propertyId,
                                 platform |-> calendar.platform,
                                 calendarUrl |-> calendar.url],
                 filterEventsForDate(Calendar(calendar.url), targetDate, timezone)),
        calendars))

(***************************************************************************)
(* QueueService.syncPropertyCalendar                                       *)
(***************************************************************************)
\* reservation.findFirst({ propertyId, externalId: event.uid, source }); an
\* undefined uid is no filter
existingReservation(rows, p, uid, source) ==
    \E k \in 1..Len(rows) :
        /\ rows[k].propertyId = p
        /\ rows[k].source = source
        /\ uid # NoUid => rows[k].externalId = uid

RECURSIVE importEvents(_, _, _, _)
importEvents(rows, events, p, source) ==
    IF events = <<>> THEN rows
    ELSE LET event == Head(events)
         IN  IF ~event.hasEnd \/ existingReservation(rows, p, event.uid, source)
             THEN importEvents(rows, Tail(events), p, source)
             ELSE importEvents(Append(rows, [propertyId |-> p, source |-> source,
                                             externalId |-> event.uid,
                                             checkoutDate |-> event.end,
                                             status |-> "confirmed",
                                             event |-> event.id]),
                               Tail(events), p, source)

RECURSIVE syncSources(_, _, _, _)
syncSources(rows, sources, p, failed) ==
    IF sources = <<>> THEN rows
    ELSE syncSources(
           IF icalUrl(p, Head(sources)) = NoUrl THEN rows
           ELSE importEvents(rows, fetchEvents(icalUrl(p, Head(sources)), failed),
                             p, Head(sources)),
           Tail(sources), p, failed)

syncPropertyCalendar(rows, p, failed) == syncSources(rows, Sources, p, failed)

(***************************************************************************)
(* The calendar readers under fetch failures                               *)
(***************************************************************************)
\* one pass of the loop over the properties in processCheckoutsForUser
FetchProperty ==
    /\ fetchRun.worker < NumProperties
    /\ fetchRun' = [fetchRun EXCEPT
          !.worker = @ + 1,
          !.allCheckouts = @ \o collectCheckouts(<<fetchRun.worker + 1>>, processedEvent,
                                                 fetchFailed, 0)]
    /\ UNCHANGED <<fetchFailed, reservation>>
    /\ UNCHANGED notFetch

\* runDailyRoutine: aggregateEvents over the calendar inputs
Aggregate ==
    /\ ~fetchRun.aggregated
    /\ fetchRun' = [fetchRun EXCEPT
          !.aggregated = TRUE,
          !.events = aggregateEvents(calendarInputs, fetchFailed, Now, ZoneOffset)]
    /\ UNCHANGED <<fetchFailed, reservation>>
    /\ UNCHANGED notFetch

\* one pass of the loop of syncAllCalendars
SyncProperty ==
    /\ fetchRun.synced < NumProperties
    /\ LET rows == syncPropertyCalendar(reservation, fetchRun.synced + 1, fetchFailed)
       IN  /\ reservation' = rows
           /\ fetchRun' = [fetchRun EXCEPT
                 !.synced = @ + 1,
                 !.imported = @ + (Len(rows) - Len(reservation))]
    /\ UNCHANGED fetchFailed
    /\ UNCHANGED notFetch

InitFetch ==
    /\ InitData
    /\ fetchFailed \in SUBSET {url \in Urls : HasUrl(url)}
    /\ useRedis = FALSE
    /\ cleaningTemplate = NoTemplate
    /\ status = "connected"
    /\ employeePhone = [p \in Properties |-> "11999990001"]
    /\ userId = [p \in Properties |-> 1]
    /\ messageTemplate = NoTemplate

NextFetch ==
    \/ FetchProperty
    \/ Aggregate
    \/ SyncProperty

SpecFetch == InitFetch /\ [][NextFetch]_vars

\* the VEVENTs of a feed that end on the day of `Now` for the given offset
endingToday(url, offset) ==
    {e.id : e \in {x \in Range(Calendar(url)) :
                     x.type = "VEVENT" /\ zoneDay(x.end, offset) = zoneDay(Now, offset)}}

\* C11: a failed fetch of one calendar yields zero events for that calendar
\* and the remaining calendars and properties of the run are still read
FetchFaultIsolation ==
    \A url \in {u \in Urls : HasUrl(u)} :
        LET p == url[1]
            fromWorker == {c.event : c \in {x \in Range(fetchRun.allCheckouts) :
                                              x.propertyId = p /\ x.source = url[2]}}
            fromAggregate == {e.id : e \in {x \in Range(fetchRun.events) :
                                              x.calendarUrl = url /\ x.error = ""}}
            fromSync == {r.event : r \in {x \in Range(reservation) :
                                            x.propertyId = p /\ x.source = url[2]}}
            expected(offset) == IF url \in fetchFailed THEN {} ELSE endingToday(url, offset)
        IN  /\ p <= fetchRun.worker => fromWorker = expected(HostOffset)
            /\ fetchRun.aggregated => fromAggregate = expected(ZoneOffset)
            /\ p <= fetchRun.synced =>
                 IF url \in fetchFailed THEN fromSync = {}
                 ELSE fromSync = {e.id : e \in {x \in Range(Calendar(url)) :
                                                  x.type = "VEVENT"}}

\* one calendar of property 1 failed, and every reader went through all
\* properties and brought events of the other calendars
FetchedDespiteFailure ==
    /\ fetchFailed = {<<1, "airbnb">>}
    /\ fetchRun.worker = NumProperties
    /\ fetchRun.aggregated
    /\ fetchRun.synced = NumProperties
    /\ \E c \in Range(fetchRun.allCheckouts) : c.propertyId = 1 /\ c.source = "booking"
    /\ \E e \in Range(fetchRun.events) : e.propertyId = 2 /\ e.error = ""
    /\ \E r \in Range(reservation) : r.propertyId = 2

(***************************************************************************)
(* The checkout-day filters on one event                                   *)
(***************************************************************************)
\* the zones a host may run in: America/Sao_Paulo or UTC
HostZones == {0 - 3, 0}

\* end instants around the local day of the target: the evening before, the
\* first hour, late morning, the last hours, the next day
EndInstants == {TodayStart - 1, TodayStart, TodayStart + 11, TodayStart + 21,
                TodayStart + 23, TodayStart + 24}

\* target instants: 08:00 local of yesterday, today and tomorrow
TargetInstants == {Now - 24, Now, Now + 24}

\* ICalService.filterCheckoutsForDate([event], target) on the host of the call
FilterCheckouts ==
    /\ libCall.fn = "filter"
    /\ libCall.dayjs = "pending"
    /\ libCall' = [libCall EXCEPT !.dayjs =
          IF filterCheckoutsIn(<<libCall.event>>, libCall.target, libCall.host) # <<>>
          THEN "in" ELSE "out"]
    /\ UNCHANGED notCall

\* filterEventsForDate({event}, target, DEFAULT_TIMEZONE)
FilterEvents ==
    /\ libCall.fn = "filter"
    /\ libCall.luxon = "pending"
    /\ libCall' = [libCall EXCEPT !.luxon =
          IF filterEventsForDate(<<libCall.event>>, libCall.target, ZoneOffset) # <<>>
          THEN "in" ELSE "out"]
    /\ UNCHANGED notCall

InitTables ==
    /\ processedEvent = <<>>
    /\ messageLog = <<>>
    /\ sendCalls = <<>>
    /\ planned = <<>>
    /\ triggers = 0
    /\ isRunning = FALSE
    /\ inv = [i \in Invocations |-> Idle]
    /\ notificationLog = <<>>
    /\ notificationQueue = <<>>
    /\ cleaning = [i \in Invocations |-> Resting]
    /\ jobRun = <<>>
    /\ auditLog = <<>>
    /\ rejections = <<>>
    /\ responses = <<>>
    /\ fetchRun = NotFetched
    /\ reservation = <<>>
    /\ fetchFailed = {}
    /\ useRedis = FALSE
    /\ cleaningTemplate = NoTemplate
    /\ status = "connected"
    /\ employeePhone = [p \in Properties |-> "11999990001"]
    /\ userId = [p \in Properties |-> 1]
    /\ messageTemplate = NoTemplate
    /\ InitServices

InitFilter ==
    /\ InitTables
    /\ \E host \in HostZones, end \in EndInstants, target \in TargetInstants,
          hasEnd \in BOOLEAN :
         libCall = [fn |-> "filter", host |-> host, target |-> target,
                 event |-> [VEvent("e", "u", end) EXCEPT !.hasEnd = hasEnd],
                 dayjs |-> "pending", luxon |-> "pending"]

NextFilter ==
    \/ FilterCheckouts
    \/ FilterEvents

SpecFilter == InitFilter /\ [][NextFilter]_vars

\* the membership the configured zone gives: the end's local day is the target's
endsOnTarget(event, target) ==
    event.hasEnd /\ zoneDay(event.end, ZoneOffset) = zoneDay(target, ZoneOffset)

\* C12: an event with an end is selected for a target date if and only if the
\* calendar date of its end in the configured zone equals the target date
CheckoutDayFilter ==
    (libCall.fn = "filter" /\ libCall.event.hasEnd) =>
        /\ libCall.dayjs # "pending" =>
              (libCall.dayjs = "in" <=> endsOnTarget(libCall.event, libCall.target))
        /\ libCall.luxon # "pending" =>
              (libCall.luxon = "in" <=> endsOnTarget(libCall.event, libCall.target))

(***************************************************************************)
(* ICalService.parseEvent(event, source) of the sync service               *)
(***************************************************************************)
\* a summary or description is the sequence of its words; the empty sequence
\* is the empty string
Summaries ==
    { <<"Maria", "Silva", "(", "HMABC123", ")">>,
      <<"CLOSED", "-", "Joao">>,
      <<"Blocked">>, <<"Reserved">>, <<"Not", "available">>, <<"unavailable">>,
      <<"Maria", "Silva">>, <<"CLOSED">>, <<>> }

Descriptions == { <<>>, <<"Phone:", "+5511999990003">>, <<"Booking.com:", "4411223344">> }

ParseSources == {"airbnb", "booking", "other"}

\* the words that are written [A-Z0-9]+ and those written \d+
UpperCodes == {"HMABC123", "CLOSED", "4411223344"}

Digits == {"4411223344"}

DefaultGuest == <<"Hospede">>

toLowerCase(word) ==
    CASE word = "Blocked" -> "blocked"
      [] word = "Reserved" -> "reserved"
      [] word = "Not" -> "not"
      [] word = "CLOSED" -> "closed"
      [] word = "Maria" -> "maria"
      [] word = "Silva" -> "silva"
      [] word = "Joao" -> "joao"
      [] word = "HMABC123" -> "hmabc123"
      [] OTHER -> word

\* String.prototype.includes on word sequences
includes(text, phrase) ==
    \E i \in 1..(Len(text) - Len(phrase) + 1) :
        SubSeq(text, i, i + Len(phrase) - 1) = phrase

\* /^(.+?)\s*\(([A-Z0-9]+)\)$/
matchAirbnb(summary) ==
    /\ Len(summary) >= 4
    /\ summary[Len(summary)] = ")"
    /\ summary[Len(summary) - 2] = "("
    /\ summary[Len(summary) - 1] \in UpperCodes

\* /^CLOSED\s*-\s*(.+)$/i
matchBooking(summary) ==
    /\ Len(summary) >= 3
    /\ toLowerCase(summary[1]) = "closed"
    /\ summary[2] = "-"

parseGuestName(summary, source) ==
    IF source = "airbnb"
    THEN IF matchAirbnb(summary) THEN SubSeq(summary, 1, Len(summary) - 3)
         ELSE IF summary # <<"Reserved">> /\ summary # <<"Blocked">> THEN summary
         ELSE DefaultGuest
    ELSE IF source = "booking"
    THEN IF matchBooking(summary) THEN SubSeq(summary, 3, Len(summary))
         ELSE IF ~includes(summary, <<"CLOSED">>) /\ ~includes(summary, <<"Not", "available">>)
              THEN summary
         ELSE DefaultGuest
    ELSE DefaultGuest

parseConfirmationCode(summary, description, source) ==
    IF source = "airbnb" /\ matchAirbnb(summary) THEN summary[Len(summary) - 1]
    ELSE IF source = "booking" /\ Len(description) >= 2
            /\ toLowerCase(description[1]) = "booking.com:" /\ description[2] \in Digits
    THEN description[2]
    ELSE "null"

parseEventSource(event, source, now) ==
    LET lowered == Map(toLowerCase, event.summary)
        guestName == parseGuestName(event.summary, source)
    IN  [uid |-> IF event.uid = NoUid THEN source \o "-" \o ToString(now) ELSE event.uid,
         source |-> source,
         guestName |-> guestName,
         confirmationCode |-> parseConfirmationCode(event.summary, event.description, source),
         summary |-> event.summary,
         isBlocked |-> \/ includes(lowered, <<"blocked">>)
                       \/ includes(lowered, <<"not", "available">>)
                       \/ includes(lowered, <<"unavailable">>)
                       \/ guestName = DefaultGuest]

\* parseEvent(event, source) on the event of the call
ParseEvent ==
    /\ libCall.fn = "parse"
    /\ ~libCall.done
    /\ libCall' = [libCall EXCEPT !.done = TRUE,
                                  !.result = parseEventSource(libCall.event, libCall.source, 0)]
    /\ UNCHANGED notCall

InitParse ==
    /\ InitTables
    /\ \E summary \in Summaries, description \in Descriptions,
          source \in ParseSources, uid \in {NoUid, "u"} :
         libCall = [fn |-> "parse", source |-> source, done |-> FALSE,
                    event |-> [uid |-> uid, summary |-> summary,
                               description |-> description],
                    result |-> [uid |-> NoUid, source |-> source, guestName |-> <<>>,
                                confirmationCode |-> "null", summary |-> <<>>,
                                isBlocked |-> FALSE]]

NextParse == ParseEvent

SpecParse == InitParse /\ [][NextParse]_vars

\* the summaries that name no guest
Placeholders == { <<"Blocked">>, <<"Reserved">>, <<"Not", "available">>, <<"unavailable">> }

\* C13: an Airbnb summary "Name (CODE)" gives the name, the code and
\* isBlocked = FALSE; a Booking summary "CLOSED - Name" gives the name and
\* isBlocked = FALSE; a placeholder summary, and any event from which no real
\* guest name can be extracted, gives isBlocked = TRUE
PlatformParsing ==
    (libCall.fn = "parse" /\ libCall.done) =>
        LET summary == libCall.event.summary
            result == libCall.result
        IN  /\ (libCall.source = "airbnb" /\ matchAirbnb(summary)) =>
                 /\ result.guestName = SubSeq(summary, 1, Len(summary) - 3)
                 /\ result.confirmationCode = summary[Len(summary) - 1]
                 /\ ~result.isBlocked
            /\ (libCall.source = "booking" /\ matchBooking(summary)) =>
                 /\ result.guestName = SubSeq(summary, 3, Len(summary))
                 /\ ~result.isBlocked
            /\ summary \in Placeholders => result.isBlocked
            /\ (result.guestName = <<>> \/ result.guestName \in Placeholders
                \/ result.guestName = DefaultGuest) => result.isBlocked

(***************************************************************************)
(* Placeholder blocks in the pipelines                                     *)
(***************************************************************************)
\* isBlocked of the feed entry `id` read from `source`
blockedEntry(id, source) ==
    parseEventSource([uid |-> "u", summary |-> Summary(id), description |-> <<>>],
                     source, 0).isBlocked

\* C14: a calendar entry that is a placeholder block never contributes a line
\* to a cleaning message and never causes a message to be sent
BlockedExcluded ==
    \A k \in 1..Len(sendCalls) :
        \A j \in 1..Len(sendCalls[k].checkouts) :
            ~blockedEntry(sendCalls[k].checkouts[j].event, sendCalls[k].checkouts[j].source)

\* no reservation row was imported from a placeholder block
BlockedNotImported ==
    \A k \in 1..Len(reservation) : ~blockedEntry(reservation[k].event, reservation[k].source)

(***************************************************************************)
(* NotificationService.processTemplate on templates and data               *)
(***************************************************************************)
Templates ==
    { <<"Ola", "{{guest_name}}", "!", "Checkout", "{{checkout_time}}">>,
      <<"WiFi", "{{wifi_password}}", "para", "{{guest_name}}">>,
      <<"{{guest_name}}", "{{guest_name}}", "{{adults}}", "{{children}}">>,
      <<"Sem", "marcadores">> }

GuestNames == {"", "Ana", "{{checkout_time}}", "$&"}

CheckoutTimes == {"", "11:00", "{{guest_name}}"}

WifiPasswords == {"", "abc", "Pa$$word"}

ProcessTemplate ==
    /\ libCall.fn = "template"
    /\ ~libCall.done
    /\ libCall' = [libCall EXCEPT !.done = TRUE,
                                  !.result = processTemplate(libCall.template, libCall.data)]
    /\ UNCHANGED notCall

InitTemplate ==
    /\ InitTables
    /\ \E template \in Templates, guestName \in GuestNames,
          checkoutTime \in CheckoutTimes, wifiPassword \in WifiPasswords :
         libCall = [fn |-> "template", template |-> template, done |-> FALSE,
                    data |-> [TemplateData EXCEPT !.guestName = guestName,
                                                  !.checkoutTime = checkoutTime,
                                                  !.wifiPassword = wifiPassword],
                    result |-> <<>>]

NextTemplate == ProcessTemplate

SpecTemplate == InitTemplate /\ [][NextTemplate]_vars

\* the data value (empty or default when absent) a supported token stands for
valueOf(token, data) ==
    CASE token = "{{guest_name}}" -> data.guestName
      [] token = "{{checkout_time}}" -> data.checkoutTime
      [] token = "{{wifi_password}}" -> data.wifiPassword
      [] token = "{{adults}}" -> IF data.adults = "" THEN "1" ELSE data.adults
      [] token = "{{children}}" -> IF data.children = "" THEN "0" ELSE data.children
      [] OTHER -> token

\* C15: processTemplate replaces every occurrence of every supported token by
\* the corresponding data value and leaves the literal text unchanged
TemplateRendering ==
    (libCall.fn = "template" /\ libCall.done) =>
        libCall.result = [k \in 1..Len(libCall.template) |->
                            valueOf(libCall.template[k], libCall.data)]

(***************************************************************************)
(* POST /api/dashboard/run-worker                                          *)
(***************************************************************************)
\* what runNow resolves with: processCheckoutsForUser and processAllUsers
\* return nothing on every path
runNow(calls) == "undefined"

\* the route awaits runNow and answers with a fixed body; 500 only if it threw
runWorker(calls) ==
    IF runNow(calls) = "undefined"
    THEN [code |-> 200, message |-> "Worker executado com sucesso"]
    ELSE [code |-> 200, message |-> "Worker executado com sucesso",
          result |-> runNow(calls)]

\* the runs started through the route that made send attempts
manualRuns == {sendCalls[k].run : k \in {j \in 1..Len(sendCalls) : sendCalls[j].entry = "manual"}}

partialFailure(run) == \E k \in 1..Len(callsOf(run)) : ~callsOf(run)[k].ok

\* C16: the answer to a manual run tells a run with partial failures from a
\* clean run (and from a run that did not take place)
RunNowResult ==
    \A r1, r2 \in manualRuns :
        (partialFailure(r1) /\ ~partialFailure(r2)) =>
            runWorker(callsOf(r1)) # runWorker(callsOf(r2))

(***************************************************************************)
(* The message log as an audit trail                                       *)
(***************************************************************************)
\* the message_logs rows one send attempt of a run left
rowsOfCall(c) ==
    SelectSeq(messageLog, LAMBDA row : row.run = c.run /\ row.employeePhone = c.phone)

\* C17: every send attempt, successful or failed, results in exactly one log
\* row, with status 'sent' if it succeeded and 'failed' if it did not
AuditTrail ==
    \A k \in 1..Len(sendCalls) :
        /\ Len(rowsOfCall(sendCalls[k])) = 1
        /\ rowsOfCall(sendCalls[k])[1].status = IF sendCalls[k].ok THEN "sent" ELSE "failed"

\* no row of the message log is modified or removed once written
LogAppendOnly ==
    [][/\ Len(messageLog') >= Len(messageLog)
       /\ \A k \in 1..Len(messageLog) : messageLog'[k] = messageLog[k]]_vars

(***************************************************************************)
(* whatsappService.sendMessage of the daily routine (Evolution API)        *)
(***************************************************************************)
\* sendMessage(phone, message, retries = 3)
DefaultRetries == 3

\* a phone number is the sequence of its chunks, digits and punctuation
EvolutionPhones == { <<"11", "99999", "0001">>,
                     <<"55", "11", "99999", "0001">>,
                     <<"(", "11", ")", "99999", "-", "0001">> }

\* the answers of axios.post: 2xx, a client error, a server error, no answer
\* within the 10 s timeout or a connection error
PostOutcomes == {"ok", "4xx", "5xx", "network"}

\* phone.replace(/\D/g, '') and the country code
formatPhoneNumber(phone) ==
    LET cleaned == SelectSeq(phone, LAMBDA chunk : chunk \notin {"(", ")", "-", "+", " "})
    IN  IF cleaned # <<>> /\ Head(cleaned) = "55" THEN cleaned ELSE <<"55">> \o cleaned

\* sendMessage is called: without configuration it returns at once
EvolutionSend ==
    /\ libCall.fn = "sendMessage"
    /\ libCall.pc = "called"
    /\ libCall' = IF ~libCall.configured
                  THEN [libCall EXCEPT !.pc = "returned",
                                       !.result = [success |-> FALSE, simulated |-> TRUE]]
                  ELSE [libCall EXCEPT !.pc = "post", !.attempt = 1]
    /\ UNCHANGED notCall

\* one axios.post of the loop and what follows it: return on 2xx, leave the
\* loop on 4xx or after the last attempt, otherwise wait
EvolutionPost ==
    /\ libCall.fn = "sendMessage"
    /\ libCall.pc = "post"
    /\ \E outcome \in PostOutcomes :
         LET posts == Append(libCall.posts,
                             [number |-> formatPhoneNumber(libCall.phone),
                              attempt |-> libCall.attempt, outcome |-> outcome])
         IN  libCall' =
               IF outcome = "ok"
               THEN [libCall EXCEPT !.posts = posts, !.pc = "returned",
                                    !.result = [success |-> TRUE, simulated |-> FALSE]]
               ELSE IF outcome = "4xx" \/ libCall.attempt >= libCall.retries
               THEN [libCall EXCEPT !.posts = posts, !.pc = "returned",
                                    !.result = [success |-> FALSE, simulated |-> FALSE]]
               ELSE [libCall EXCEPT !.posts = posts, !.pc = "wait"]
    /\ UNCHANGED notCall

\* the exponential backoff between two attempts has elapsed
EvolutionBackoff ==
    /\ libCall.fn = "sendMessage"
    /\ libCall.pc = "wait"
    /\ libCall' = [libCall EXCEPT !.pc = "post", !.attempt = @ + 1]
    /\ UNCHANGED notCall

InitEvolution ==
    /\ InitTables
    /\ \E phone \in EvolutionPhones, configured \in BOOLEAN, retries \in 1..DefaultRetries :
         libCall = [fn |-> "sendMessage", phone |-> phone, configured |-> configured,
                    retries |-> retries, pc |-> "called", attempt |-> 0, posts |-> <<>>,
                    result |-> [success |-> FALSE, simulated |-> FALSE]]

NextEvolution ==
    \/ EvolutionSend
    \/ EvolutionPost
    \/ EvolutionBackoff

SpecEvolution == InitEvolution /\ [][NextEvolution]_vars

\* C18: a send that fails with a network or provider error is attempted at
\* most once for that recipient in the current run; the retry is left to the
\* next run
RetryByNextRun ==
    libCall.fn = "sendMessage" => Len(libCall.posts) <= 1

(***************************************************************************)
(* Channel loss and unanswered provider calls in the worker                *)
(***************************************************************************)
\* C19: once the channel is disconnected while a run is sending, the run
\* makes no send attempt for the remaining recipients
ChannelLossAborts ==
    [][status = "disconnected" => sendCalls' = sendCalls]_vars

\* client.sendMessage is awaited without a timeout: the promise of a call the
\* provider never answers stays pending and the loop does not go on
SendHangs(i) ==
    /\ inv[i].pc = "send"
    /\ status = "connected"
    /\ inv' = [inv EXCEPT ![i].pc = "pending"]
    /\ UNCHANGED <<status, employeePhone, userId, messageTemplate, processedEvent,
                   messageLog, sendCalls, planned, isRunning, triggers>>
    /\ UNCHANGED notWorker

NextHang ==
    \/ Next
    \/ \E i \in Invocations : SendHangs(i)

\* the event loop runs every continuation that is ready; Collect(i) is
\* enabled exactly when invocation i is in its read phase, and its weak
\* fairness is written out with that condition
Fairness ==
    \A i \in Invocations :
        /\ WF_vars(NextUser(i))
        /\ WF_vars(Send(i))
        /\ []<>(inv[i].pc # "collect") \/ []<><<Collect(i)>>_vars

SpecHang == Init /\ [][NextHang]_vars /\ Fairness

\* C20: every dispatch call is bounded, so every run terminates and releases
\* its single-flight guard even if a provider call never answers
BoundedDispatch == isRunning ~> ~isRunning

(***************************************************************************)
(* SpecLifecycle: SchedulerService.start / stop / getStatus together with  *)
(* the job wrapper                                                         *)
(***************************************************************************)
\* the names of the addJob calls of start(), in order
StartJobs == <<"calendar-sync", "checkin-reminders", "checkout-reminders",
               "cleaning-notifications", "review-requests", "cleanup", "daily-summary">>

\* addJob: cron.schedule creates a live task and jobs.set stores it under
\* `name`, replacing what the Map held there
addJob(s, name) ==
    [s EXCEPT !.jobs = @ \cup {name}, !.tasks[name] = @ + 1]

RECURSIVE addJobs(_, _)
addJobs(s, names) ==
    IF names = <<>> THEN s ELSE addJobs(addJob(s, Head(names)), Tail(names))

\* start(): returns at once when running, else the seven addJob calls and
\* isRunning = true
start(s) ==
    IF s.isRunning THEN s
    ELSE [addJobs(s, StartJobs) EXCEPT !.isRunning = TRUE]

\* a stop() that stops and forgets the tasks and leaves isRunning as it was
stopKeepsRunning(s) ==
    [s EXCEPT !.tasks = [n \in JobNames |-> IF n \in s.jobs THEN s.tasks[n] - 1
                                            ELSE s.tasks[n]],
              !.jobs = {}]

\* stop(): job.stop() for every entry of the Map, jobs.clear(), isRunning = false
stop(s) ==
    [s EXCEPT !.tasks = [n \in JobNames |-> IF n \in s.jobs THEN s.tasks[n] - 1
                                            ELSE s.tasks[n]],
              !.jobs = {},
              !.isRunning = FALSE,
              !.stopped = s.stopped \/ s.isRunning]

\* getStatus(): isRunning, the names of the Map and its size
getStatus(s) ==
    [isRunning |-> s.isRunning, jobs |-> s.jobs, totalJobs |-> Cardinality(s.jobs)]

\* startServer, or any other caller of the singleton, calls start()
Start ==
    /\ scheduler' = start(scheduler)
    /\ UNCHANGED notScheduler

\* the SIGTERM / SIGINT handlers, or any other caller, call stop(); bodies in
\* flight are not awaited
Stop ==
    /\ scheduler' = stop(scheduler)
    /\ UNCHANGED notScheduler

\* GET /api/automation/status answers with getStatus()
GetStatus ==
    /\ triggers < MaxTriggers
    /\ triggers' = triggers + 1
    /\ responses' = Append(responses, [name |-> "status", code |-> 200,
                                       scheduler |-> getStatus(scheduler)])
    /\ UNCHANGED <<jobRun, auditLog, rejections>>
    /\ UNCHANGED notJobs

\* a live node-cron task of `name` ticks
TaskTick(name) ==
    /\ scheduler.tasks[name] > 0
    /\ CronFire(name)

NextLifecycle ==
    \/ Start
    \/ Stop
    \/ GetStatus
    \/ \E name \in JobNames : TaskTick(name)
    \/ \E name \in JobNames \cup {"unknown"} : RunJob(name)
    \/ \E k \in 1..MaxTriggers : HandlerReturns(k)
    \/ \E k \in 1..MaxTriggers : HandlerThrows(k)
    \/ \E k \in 1..MaxTriggers : AuditLogCreate(k)

SpecLifecycle == InitJobs /\ [][NextLifecycle]_vars

\* isRunning is true iff exactly the seven names are registered and false iff
\* none is, and one task is live for each registered name and none for others
registeredIffRunning(s) ==
    /\ s.isRunning <=> s.jobs = JobNames
    /\ ~s.isRunning <=> s.jobs = {}
    /\ \A n \in JobNames : s.tasks[n] = IF n \in s.jobs THEN 1 ELSE 0

\* C21: start() registers exactly the seven named jobs and a second start()
\* while running registers nothing; stop() stops and removes every registered
\* job and leaves the scheduler not running, after which start() registers the
\* seven again; in every state (and in every status answer) isRunning is true
\* iff exactly those seven jobs are registered and false iff none is
SchedulerLifecycle ==
    /\ [](registeredIffRunning(scheduler)
          /\ \A k \in 1..Len(responses) :
                responses[k].name = "status" =>
                  /\ responses[k].scheduler.isRunning
                       <=> responses[k].scheduler.totalJobs = 7
                  /\ ~responses[k].scheduler.isRunning
                       <=> responses[k].scheduler.totalJobs = 0)
    /\ [][/\ (scheduler.isRunning /\ scheduler'.isRunning) => scheduler' = scheduler
          /\ (~scheduler.isRunning /\ scheduler'.isRunning)
               => scheduler'.jobs = JobNames
          /\ (scheduler.isRunning /\ ~scheduler'.isRunning)
               => /\ scheduler'.jobs = {}
                  /\ \A n \in JobNames : scheduler'.tasks[n] = 0]_vars

\* the scheduler was started, stopped and started again, a task of the second
\* registration has ticked and a status answer was given while running
Restarted ==
    /\ scheduler.isRunning
    /\ scheduler.stopped
    /\ \E k \in 1..Len(jobRun) : jobRun[k].entry = "cron"
    /\ \E k \in 1..Len(responses) :
          responses[k].name = "status" /\ responses[k].scheduler.isRunning

(***************************************************************************)
(* SpecFallback: NotificationService.sendWelcomeMessage, sendCheckinReminder,*)
(* sendCheckoutReminder, sendCleaningNotification and sendReviewRequest      *)
(***************************************************************************)
NotificationTypes == {"welcome", "checkin_reminder", "checkout_reminder",
                      "cleaning", "review_request"}

\* contents of the messageTemplate table: no row, an active row of the owner,
\* an active global row (userId null, written 0), an inactive row of the owner
TemplateRow(type, user, active) ==
    [type |-> type, channel |-> "whatsapp", userId |-> user, isActive |-> active,
     content |-> <<"Modelo", "{{guest_name}}", "{{employee_name}}", "{{property_name}}">>]

TemplateTables(type) ==
    { <<>>,
      <<TemplateRow(type, 1, TRUE)>>,
      <<TemplateRow(type, 0, TRUE)>>,
      <<TemplateRow(type, 1, FALSE)>>,
      <<TemplateRow("custom", 1, TRUE)>> }

\* messageTemplate.findFirst: active rows of the type and channel owned by the
\* user or global, the user's own first
findFirstTemplate(rows, type, channel, user) ==
    LET matching == SelectSeq(rows, LAMBDA r : /\ r.type = type
                                               /\ r.channel = channel
                                               /\ r.isActive
                                               /\ r.userId \in {user, 0})
        own == SelectSeq(matching, LAMBDA r : r.userId = user)
    IN  IF matching = <<>> THEN <<>>
        ELSE IF own # <<>> THEN <<own[1]>> ELSE <<matching[1]>>

\* getTemplateAndProcess: null (written NoTemplate) when no row matches, else
\* the processed content
getTemplateAndProcess(rows, type, channel, user, data) ==
    LET found == findFirstTemplate(rows, type, channel, user)
    IN  IF found = <<>> THEN NoTemplate
        ELSE processTemplate(found[1].content, data)

\* the built-in message of each function
defaultContent(type, data, checkouts) ==
    CASE type = "welcome" ->
           <<"Ola", data.guestName, "Seja bem-vindo(a) ao", data.propertyName,
             "check-in", formatDate(data.checkinDate), "as", data.checkinTime>>
      [] type = "checkin_reminder" ->
           <<"Ola", data.guestName, "seu check-in no", data.propertyName,
             "e amanha as", data.checkinTime>>
           \o (IF data.accessInstructions # ""
               THEN <<"Instrucoes de acesso:", data.accessInstructions>> ELSE <<>>)
           \o <<"Boa viagem!">>
      [] type = "checkout_reminder" ->
           <<"Ola", data.guestName, "seu checkout do", data.propertyName,
             "e amanha as", data.checkoutTime>>
      [] type = "cleaning" ->
           IF Len(checkouts) = 1
           THEN <<"Ola", data.employeeName, "Hoje tem limpeza no", data.propertyName,
                  "as", data.checkoutTime, "Bom trabalho!">>
           ELSE <<"Ola", data.employeeName, "Hoje voce tem", ToString(Len(checkouts)),
                  "limpezas:">> \o propertyList(checkouts) \o <<"Bom trabalho!">>
      [] type = "review_request" ->
           <<"Ola", data.guestName, "sua estadia no", data.propertyName,
             "deixe uma avaliacao">>

\* how each function declares the variable the fallback assigns to
templateBinding(type) == IF type = "welcome" THEN "const" ELSE "let"

\* the five send functions up to their call of send(): the outcome is the
\* message handed to send, or the error thrown before it
prepareNotification(type, rows, user, data, checkouts, recipient) ==
    LET template == getTemplateAndProcess(rows, type, "whatsapp", user, data)
    IN  IF template = NoTemplate /\ templateBinding(type) = "const"
        THEN [threw |-> "TypeError: Assignment to constant variable.",
              send |-> FALSE, message |-> <<>>]
        ELSE IF type # "cleaning" /\ recipient = ""
        THEN [threw |-> "Hospede nao possui whatsapp cadastrado",
              send |-> FALSE, message |-> <<>>]
        ELSE [threw |-> "none", send |-> TRUE,
              message |-> IF template = NoTemplate
                          THEN defaultContent(type, data, checkouts)
                          ELSE template]

\* the arguments of a call: the reservation's guest and property
NotificationData ==
    [TemplateData EXCEPT !.guestName = "Ana", !.propertyName = PropertyName(1),
                         !.employeeName = EmployeeName(1), !.checkinDate = "2024-01-15",
                         !.checkoutDate = "2024-01-17", !.checkinTime = "15:00",
                         !.checkoutTime = "11:00"]

\* one of the five functions runs: on a message it calls send(), which makes
\* one attempt on the channel and writes one notificationLog row
SendNotification ==
    /\ libCall.fn = "notify"
    /\ ~libCall.done
    /\ LET prepared == prepareNotification(libCall.type, libCall.rows, 1, NotificationData,
                                           libCall.checkouts, libCall.recipient)
           ok == sendMessageOk(status, libCall.clientOk)
       IN  /\ libCall' = [libCall EXCEPT !.done = TRUE, !.result = prepared]
           /\ notificationLog' =
                 IF prepared.send
                 THEN Append(notificationLog,
                        [type |-> libCall.type, channel |-> "whatsapp",
                         recipient |-> libCall.recipient, message |-> prepared.message,
                         status |-> IF ok THEN "sent" ELSE "failed", run |-> 0])
                 ELSE notificationLog
    /\ UNCHANGED <<status, employeePhone, userId, messageTemplate, processedEvent,
                   messageLog, sendCalls, planned, isRunning, inv, triggers,
                   useRedis, cleaningTemplate, notificationQueue, cleaning,
                   jobRun, auditLog, rejections, responses,
                   fetchFailed, fetchRun, reservation, services>>

InitFallback ==
    /\ InitTables
    /\ \E type \in NotificationTypes, recipient \in {"", "11999990001"},
          clientOk \in BOOLEAN, n \in 1..2 :
       \E rows \in TemplateTables(type) :
         libCall = [fn |-> "notify", type |-> type, rows |-> rows,
                    recipient |-> recipient, clientOk |-> clientOk,
                    checkouts |-> [k \in 1..n |-> [propertyName |-> PropertyName(k),
                                                   checkoutTime |-> "11:00"]],
                    done |-> FALSE,
                    result |-> [threw |-> "none", send |-> FALSE, message |-> <<>>]]

NextFallback == SendNotification

SpecFallback == InitFallback /\ [][NextFallback]_vars

\* no active template exists for the owner or globally
noActiveTemplate(c) == findFirstTemplate(c.rows, c.type, "whatsapp", 1) = <<>>

\* C22: for every notification type, when no active template exists for the
\* owning account or globally, the built-in default message is rendered and
\* passed to send; the fallback never raises an error and never prevents the
\* send attempt
DefaultFallback ==
    (libCall.fn = "notify" /\ libCall.done /\ noActiveTemplate(libCall)
       /\ (libCall.type = "cleaning" \/ libCall.recipient # ""))
    => /\ libCall.result.threw = "none"
       /\ libCall.result.send
       /\ libCall.result.message
            = defaultContent(libCall.type, NotificationData, libCall.checkouts)
       /\ Len(notificationLog) = 1

(***************************************************************************)
(* SpecCache: icalService.fetchCalendar and its calendarCache              *)
(***************************************************************************)
\* what the remote server may answer: 200 with a well-formed or a malformed
\* body, 304, a non-2xx status, or no answer at all
FetchOutcomes == {"200", "200 malformed", "304", "500", "network error"}

\* whether the server sends an ETag header with a 200
ServerSendsEtag == {TRUE, FALSE}

\* ical.sync.parseICS of the body of version `version` of the feed at `url`
parseICS(url, version) == [feed |-> url, version |-> version]

\* the ETag of a version
etagOf(version) == "etag-" \o version

\* the If-None-Match header of the request: cached?.etag when it is set
conditionalHeaders(cached) ==
    IF cached # NotCached /\ cached.etag # "null" THEN <<cached.etag>> ELSE <<>>

\* a response that stores what it received whatever the outcome
fetchCalendarStoresAlways(cache, cached, url, outcome, version, sendsEtag) ==
    LET payload == [url |-> url, etag |-> "null", lastModified |-> "null",
                    parsed |-> parseICS(url, "none"), raw |-> <<url, "none">>,
                    fromCache |-> FALSE]
    IN  [cache |-> [cache EXCEPT ![url] = payload],
         threw |-> outcome # "200", result |-> payload]

\* fetchCalendar from the answer on: 304 with a cached entry returns the entry
\* marked fromCache; a status that is not ok throws; parseICS may throw on the
\* body; otherwise the payload is stored under the URL and returned
fetchCalendar(cache, cached, url, outcome, version, sendsEtag) ==
    IF outcome = "304" /\ cached # NotCached
    THEN [cache |-> cache, threw |-> FALSE,
          result |-> [cached EXCEPT !.fromCache = TRUE]]
    ELSE IF outcome \in {"304", "500", "network error", "200 malformed"}
    THEN [cache |-> cache, threw |-> TRUE, result |-> NotCached]
    ELSE LET payload ==
               [url |-> url,
                etag |-> IF sendsEtag THEN etagOf(version)
                         ELSE IF cached # NotCached THEN cached.etag ELSE "null",
                lastModified |-> IF cached # NotCached THEN cached.lastModified
                                 ELSE "null",
                parsed |-> parseICS(url, version),
                raw |-> <<url, version>>,
                fromCache |-> FALSE]
         IN  [cache |-> [cache EXCEPT ![url] = payload], threw |-> FALSE,
              result |-> payload]

\* fetchCalendar(url) up to `await fetch(url, { headers })`: the entry of the
\* Map is read once, here
FetchCalendar(c, url) ==
    /\ calendarFetch[c].pc # "await"
    /\ calendarFetch' = [calendarFetch EXCEPT ![c] =
           [pc |-> "await", url |-> url, cached |-> calendarCache[url],
            headers |-> conditionalHeaders(calendarCache[url])]]
    /\ UNCHANGED <<calendarCache, feedContent>>
    /\ UNCHANGED notCache

\* the answer arrives and the rest of fetchCalendar runs
FetchResponse(c) ==
    /\ calendarFetch[c].pc = "await"
    /\ \E outcome \in FetchOutcomes, sendsEtag \in ServerSendsEtag :
         LET call == calendarFetch[c]
             r == fetchCalendar(calendarCache, call.cached, call.url, outcome,
                                feedContent[call.url], sendsEtag)
         IN  /\ calendarCache' = r.cache
             /\ calendarFetch' = [calendarFetch EXCEPT ![c] =
                    [pc |-> "done", url |-> call.url, cached |-> call.cached,
                     outcome |-> outcome, threw |-> r.threw, result |-> r.result]]
    /\ UNCHANGED feedContent
    /\ UNCHANGED notCache

\* the owner of the feed changes it on the remote server
FeedChanges(url) ==
    /\ feedContent' = [feedContent EXCEPT ![url] = IF @ = "A" THEN "B" ELSE "A"]
    /\ UNCHANGED <<calendarCache, calendarFetch>>
    /\ UNCHANGED notCache

InitCache ==
    /\ InitTables
    /\ libCall = [fn |-> "none"]

NextCache ==
    \/ \E c \in Callers, url \in CacheUrls : FetchCalendar(c, url)
    \/ \E c \in Callers : FetchResponse(c)
    \/ \E url \in CacheUrls : FeedChanges(url)

SpecCache == InitCache /\ [][NextCache]_vars

\* the answer of call `c` is handled in this step
answered(c) == calendarFetch[c].pc = "await" /\ calendarFetch'[c].pc = "done"

\* C23: once a successful fetch of a URL has stored a cache entry, a later 304
\* for that URL returns the previously cached parse marked fromCache and
\* leaves the cache entry unchanged; a failed fetch (non-2xx, network or parse
\* error) leaves the entry of that URL and of every other URL unchanged
ConditionalFetchCache ==
    [][\A c \in Callers :
         answered(c) =>
           LET call == calendarFetch'[c]
           IN  /\ (call.outcome = "304" /\ call.cached # NotCached) =>
                     /\ calendarCache' = calendarCache
                     /\ ~call.threw
                     /\ call.result = [call.cached EXCEPT !.fromCache = TRUE]
                     /\ call.cached.url = call.url
                     /\ call.cached.parsed \in {parseICS(call.url, v) : v \in {"A", "B"}}
               /\ call.outcome \in {"500", "network error", "200 malformed"} =>
                     /\ calendarCache' = calendarCache
                     /\ call.threw]_vars

\* a 304 was answered from an entry an earlier fetch stored, while the feed
\* has changed on the server, and another call has failed since
ServedFromCache ==
    \E c, d \in Callers :
      /\ calendarFetch[c].pc = "done"
      /\ calendarFetch[c].outcome = "304"
      /\ calendarFetch[c].cached # NotCached
      /\ calendarFetch[c].result.fromCache
      /\ calendarCache[calendarFetch[c].url] = calendarFetch[c].cached
      /\ calendarFetch[d].pc = "done"
      /\ calendarFetch[d].outcome \in {"500", "network error", "200 malformed"}
      /\ calendarFetch[d].cached # NotCached

(***************************************************************************)
(* SpecGuard: the worker with awaited calls that reject, and its isRunning *)
(* flag                                                                    *)
(***************************************************************************)
\* a run that leaves the try block without the send loop finishing
releaseWithoutFinally(i) ==
    /\ isRunning' = isRunning
    /\ inv' = [inv EXCEPT ![i] = afterReturn(inv[i].users, inv[i].trigger)]

\* the outer catch and the finally (lines 211-216; 128-132 of the sql.js
\* build): the error is logged, isRunning = false, the call returns
catchAndFinally(i) ==
    /\ isRunning' = FALSE
    /\ inv' = [inv EXCEPT ![i] = afterReturn(inv[i].users, inv[i].trigger)]

\* an awaited read of the read phase rejects (setting.findUnique,
\* property.findMany, processedEvent.findFirst)
CollectThrows(i) ==
    /\ inv[i].pc = "collect"
    /\ catchAndFinally(i)
    /\ UNCHANGED <<status, employeePhone, userId, messageTemplate, processedEvent,
                   messageLog, sendCalls, planned, triggers>>
    /\ UNCHANGED notWorker

\* the database rejects the writes of the send loop: after sendMessage the
\* messageLog.create of the try rejects, or sendMessage throws, and then the
\* messageLog.create of the inner catch rejects too and leaves the loop
SendThrows(i) ==
    /\ inv[i].pc = "send"
    /\ \E clientOk \in BOOLEAN :
         LET data == Head(inv[i].groups)
         IN  sendCalls' = Append(sendCalls,
               [run |-> runOf(inv[i]), entry |-> i, seen |-> inv[i].seen,
                phone |-> data.phone,
                message |-> renderMessage(inv[i].template, data),
                ok |-> sendMessageOk(status, clientOk), checkouts |-> data.checkouts])
    /\ catchAndFinally(i)
    /\ UNCHANGED <<status, employeePhone, userId, messageTemplate, processedEvent,
                   messageLog, planned, triggers>>
    /\ UNCHANGED notWorker

NextGuard ==
    \/ Next
    \/ \E i \in Invocations : CollectThrows(i)
    \/ \E i \in Invocations : SendThrows(i)

\* the message template plays no part in the guard: the built-in message
InitGuard ==
    /\ Init
    /\ messageTemplate = NoTemplate

SpecGuard == InitGuard /\ [][NextGuard]_vars

\* the same for the sql.js build
NextGuardLegacy ==
    \/ NextLegacy
    \/ \E i \in Invocations : CollectThrows(i)
    \/ \E i \in Invocations : SendThrows(i)

SpecGuardLegacy == InitLegacy /\ [][NextGuardLegacy]_vars

\* the body of processCheckoutsForUser (processCheckouts) is executing for
\* entry point i: it is past the guard and has not returned
executing(i) == inv[i].pc \in {"collect", "send"}

\* C24: isRunning is true only while a body is executing; whenever a run ends,
\* normally, through an early return or through an exception, isRunning is
\* false again; an invocation skipped by the guard never clears the flag of
\* the run in progress
GuardReleased ==
    /\ [](isRunning <=> \E i \in Invocations : executing(i))
    /\ [](\A i, j \in Invocations : (executing(i) /\ executing(j)) => i = j)
    /\ [][\A i \in Invocations :
            /\ (executing(i) /\ ~executing(i)') => ~isRunning'
            /\ (executing(i) /\ executing(i)') => isRunning']_vars

\* a run ended through an exception (its send was attempted and no row of the
\* run was written) and the flag is released
ReleasedAfterException ==
    /\ ~isRunning
    /\ \A i \in Invocations : ~executing(i)
    /\ \E k \in 1..Len(sendCalls) :
          \A r \in 1..Len(messageLog) : messageLog[r].run # sendCalls[k].run

\* the loop of processAllUsers of entry point i moves on to its next user
loopStep(i) == inv[i].pc = "users" /\ inv'[i] # inv[i]

\* a request or a tick that leaves no invocation behind: with the channel
\* connected, a runNow(userId) that returned at the guard
droppedRequest == triggers' # triggers /\ inv' = inv

\* C25: no user is starved by the process-wide guard: with WhatsApp connected
\* every user of a processAllUsers run has their checkouts processed in that
\* run, also while a manual runNow(userId) is in flight, and a runNow(userId)
\* issued while processAllUsers is running is processed, not silently dropped
NoStarvation ==
    [][status = "connected" =>
         /\ \A i \in Invocations : loopStep(i) => executing(i)'
         /\ ~droppedRequest]_vars

(***************************************************************************)
(* SpecSiblings: sendCleaningNotifications over a reservations table that  *)
(* grows during the day                                                    *)
(***************************************************************************)
\* a confirmed reservation of property p that checks out today
CheckoutToday(p) ==
    [propertyId |-> p, source |-> "manual", externalId |-> NoUid,
     checkoutDate |-> Now, status |-> "confirmed", event |-> "none"]

\* property.findMany({ reservations: { some: { checkoutDate in today,
\* status: 'confirmed' } } }): the properties the query returns
dueProperties(rows) ==
    {p \in Properties :
        \E k \in 1..Len(rows) : /\ rows[k].propertyId = p
                                 /\ rows[k].status = "confirmed"
                                 /\ dayjsFormat(rows[k].checkoutDate) = today}

\* the orders a findMany without orderBy may return them in
orderings(S) ==
    {s \in [1..Cardinality(S) -> S] : \A a, b \in 1..Cardinality(S) : s[a] = s[b] => a = b}

\* a reservation that checks out today is created (calendar sync, or the
\* reservations route) for a property that had none
ReservationArrives(p) ==
    /\ p \notin dueProperties(reservation)
    /\ reservation' = Append(reservation, CheckoutToday(p))
    /\ UNCHANGED <<status, employeePhone, userId, messageTemplate, processedEvent,
                   messageLog, sendCalls, planned, isRunning, inv, triggers,
                   useRedis, cleaningTemplate, notificationLog, notificationQueue,
                   cleaning, jobRun, auditLog, rejections, responses,
                   fetchFailed, fetchRun, libCall, services>>

\* lines 285-332: the query over the reservations table and the grouping
CleaningQueryDue(i) ==
    /\ cleaning[i].pc = "query"
    /\ \E props \in orderings(dueProperties(reservation)) :
         LET groups == byEmployee(props)
         IN  cleaning' = [cleaning EXCEPT ![i].groups = groups,
                                          ![i].pc = IF groups = <<>> THEN "done"
                                                    ELSE "check"]
    /\ UNCHANGED <<status, employeePhone, processedEvent, sendCalls, useRedis,
                   cleaningTemplate, notificationLog, notificationQueue, triggers>>
    /\ UNCHANGED notCleaning

NextSiblings ==
    \/ Ready
    \/ Disconnected
    \/ \E p \in Properties : ReservationArrives(p)
    \/ CleaningCron
    \/ CleaningRunJob
    \/ \E i \in Invocations : CleaningQueryDue(i)
    \/ \E i \in Invocations : CleaningCheck(i)
    \/ \E i \in Invocations : CleaningDispatch(i)
    \/ \E i \in Invocations : CleaningMark(i)
    \/ \E i \in Invocations : CleaningReturn(i)
    \/ QueueProcess

SpecSiblings == InitSched /\ [][NextSiblings]_vars

\* the properties of the recipient whose turn it is in invocation i
groupProperties(i) ==
    {Head(cleaning[i].groups).checkouts[k].propertyId :
        k \in 1..Len(Head(cleaning[i].groups).checkouts)}

\* the check of invocation i skips its recipient / lets the recipient through
skipsRecipient(i) ==
    cleaning[i].pc = "check" /\ cleaning'[i] = nextGroup(cleaning[i])

passesRecipient(i) ==
    cleaning[i].pc = "check" /\ cleaning'[i].pc = "dispatch"

\* C27: the already-notified check agrees with the ledger for every property
\* of a recipient's group, in whatever order the properties are returned: a
\* recipient is skipped only if each of their properties already has a
\* ProcessedEvent for today, and a property that is already marked is never
\* included in a second message
SiblingAgreement ==
    [][\A i \in Invocations :
         /\ skipsRecipient(i) =>
               \A q \in groupProperties(i) : alreadySent(processedEvent, q)
         /\ passesRecipient(i) =>
               \A q \in groupProperties(i) : ~alreadySent(processedEvent, q)]_vars

(***************************************************************************)
(* SpecReminders: the guest notifications of SchedulerService and of the   *)
(* reservations route, processed by QueueService                           *)
(***************************************************************************)
ReminderTypes == {"welcome", "checkin_reminder", "checkout_reminder", "review_request"}

\* the flag each processor sets
flagOf(type) ==
    CASE type = "welcome" -> "welcomeMessageSent"
      [] type = "checkin_reminder" -> "checkinReminderSent"
      [] type = "checkout_reminder" -> "checkoutReminderSent"
      [] type = "review_request" -> "reviewRequestSent"

\* the where clause of the findMany of sendCheckinReminders,
\* sendCheckoutReminders and sendReviewRequests; the reservations route
\* queues the welcome message of the reservation it creates
selected(r, type) ==
    IF type = "welcome" THEN ~r.welcomeMessageSent
    ELSE r.status = "confirmed" /\ ~r[flagOf(type)]

\* what the rest of the module does not read
notReminders == <<employeePhone, userId, messageTemplate, processedEvent,
                  messageLog, sendCalls, planned, isRunning, inv,
                  cleaningTemplate, cleaning, jobRun, auditLog, rejections, responses,
                  fetchFailed, fetchRun, reservation, libCall,
                  scheduler, cacheVars, dailyRun, syncRun, webhook>>

\* processWelcomeNotification ... processReviewRequest (lines 540-683): the
\* send function runs, and unless it threw the flag is written; send() itself
\* never throws, it answers { success } and logs the attempt
processReminder(r, log, type, rows, clientOk) ==
    LET prepared == prepareNotification(type, rows, 1, NotificationData, <<>>,
                                        "11999990001")
        ok == sendMessageOk(status, clientOk)
    IN  IF prepared.threw # "none"
        THEN [reservation |-> r, log |-> log, threw |-> TRUE]
        ELSE [reservation |-> [r EXCEPT ![flagOf(type)] = TRUE],
              log |-> Append(log, [type |-> type, channel |-> "whatsapp",
                                   recipient |-> "11999990001",
                                   message |-> prepared.message,
                                   status |-> IF ok THEN "sent" ELSE "failed",
                                   run |-> triggers]),
              threw |-> FALSE]

\* the status update of sendReviewRequests after addNotificationJob returned
completeAfter(r, type, threw) ==
    IF type = "review_request" /\ ~threw THEN [r EXCEPT !.status = "completed"] ELSE r

\* the daily job of `type` (or the route, for welcome) finds the reservation
\* and calls addNotificationJob: queue.add with Redis, processNotificationSync
\* without
RequestReminder(type) ==
    /\ triggers < MaxTriggers
    /\ selected(guestReservation, type)
    /\ triggers' = triggers + 1
    /\ IF useRedis
       THEN /\ notificationQueue' = Append(notificationQueue,
                   [type |-> type, trigger |-> triggers + 1])
            /\ guestReservation' = completeAfter(guestReservation, type, FALSE)
            /\ UNCHANGED notificationLog
       ELSE /\ \E clientOk \in BOOLEAN, rows \in TemplateTables(type) :
                 LET r == processReminder(guestReservation, notificationLog, type,
                                          rows, clientOk)
                 IN  /\ guestReservation' = completeAfter(r.reservation, type, r.threw)
                     /\ notificationLog' = r.log
            /\ UNCHANGED notificationQueue
    /\ UNCHANGED <<status, useRedis>>
    /\ UNCHANGED notReminders

\* notificationQueue.process: the Bull worker takes the oldest job
ProcessReminder ==
    /\ notificationQueue # <<>>
    /\ Head(notificationQueue).type \in ReminderTypes
    /\ \E clientOk \in BOOLEAN, rows \in TemplateTables(Head(notificationQueue).type) :
         LET r == processReminder(guestReservation, notificationLog,
                                  Head(notificationQueue).type, rows, clientOk)
         IN  /\ guestReservation' = r.reservation
             /\ notificationLog' = r.log
    /\ notificationQueue' = Tail(notificationQueue)
    /\ UNCHANGED <<status, useRedis, triggers>>
    /\ UNCHANGED notReminders

InitReminders ==
    /\ InitData
    /\ fetchFailed = {}
    /\ useRedis \in BOOLEAN
    /\ cleaningTemplate = NoTemplate
    /\ status = "disconnected"
    /\ employeePhone = [p \in Properties |-> "11999990001"]
    /\ userId = [p \in Properties |-> 1]
    /\ messageTemplate = NoTemplate

NextReminders ==
    \/ Ready
    \/ Disconnected
    \/ \E type \in ReminderTypes : RequestReminder(type)
    \/ ProcessReminder

SpecReminders == InitReminders /\ [][NextReminders]_vars

\* a notification of `type` was sent successfully
delivered(type) ==
    \E k \in 1..Len(notificationLog) :
        notificationLog[k].type = type /\ notificationLog[k].status = "sent"

\* C26: a reservation's flag welcomeMessageSent / checkinReminderSent /
\* checkoutReminderSent / reviewRequestSent is true (and, for review requests,
\* the reservation 'completed') only if the corresponding notification was
\* sent successfully; after a failed send the flag stays false
FlagsReflectDelivery ==
    /\ \A type \in ReminderTypes : guestReservation[flagOf(type)] => delivered(type)
    /\ guestReservation.status = "completed" => delivered("review_request")

(***************************************************************************)
(* SpecDaily: runDailyRoutine, fired by the 08:00 cron job and by POST /run*)
(***************************************************************************)
Clients == {1, 2}

\* run dates: today and the day after (POST /run takes a date)
RunDates == {today, today + 1}

\* the recipients linked to the properties of each client
RecipientsOf(client) == IF client = 1 THEN <<"r1", "r2">> ELSE <<"r3">>

\* DEFAULT_CLIENT_ID
defaultClientId == 1

\* an INSERT that ignores UNIQUE (client_id, run_date)
createCleaningRunNoUnique(runs, client, date, call) ==
    [ok |-> TRUE,
     runs |-> Append(runs, [id |-> call, client_id |-> client, run_date |-> date,
                            status |-> "pending"])]

\* createCleaningRun: INSERT INTO cleaning_runs under UNIQUE (client_id,
\* run_date); the id of the row is written as the number of the call
createCleaningRun(runs, client, date, call) ==
    IF \E k \in 1..Len(runs) : runs[k].client_id = client /\ runs[k].run_date = date
    THEN [ok |-> FALSE, runs |-> runs]
    ELSE [ok |-> TRUE,
          runs |-> Append(runs, [id |-> call, client_id |-> client, run_date |-> date,
                                 status |-> "pending"])]

\* updateCleaningRun(id, { status })
updateCleaningRun(runs, id, st) ==
    [k \in 1..Len(runs) |-> IF runs[k].id = id THEN [runs[k] EXCEPT !.status = st]
                            ELSE runs[k]]

\* runDailyRoutine(targetDate, clientId) up to the end of createCleaningRun:
\* the insert fails and the call rejects, or the row exists and the try begins
runDailyRoutine(i, client, date) ==
    /\ dailyRun.calls[i].pc = "idle"
    /\ dailyRun.fired < MaxTriggers
    /\ LET call == dailyRun.fired + 1
           created == createCleaningRun(dailyRun.runs, client, date, call)
       IN  dailyRun' =
             IF created.ok
             THEN [dailyRun EXCEPT
                     !.fired = call,
                     !.runs = created.runs,
                     !.calls[i] = [pc |-> "fetch", call |-> call, client |-> client,
                                   date |-> date, recipients |-> <<>>]]
             ELSE [dailyRun EXCEPT
                     !.fired = call,
                     !.refused = Append(@, [call |-> call, entry |-> i,
                                            client |-> client, date |-> date])]
    /\ UNCHANGED <<pipelines, scheduler, cacheVars, guestReservation, syncRun, webhook>>

\* the 08:00 cron callback: today, DEFAULT_CLIENT_ID
DailyCron == runDailyRoutine("cron", defaultClientId, today)

\* POST /run with a date and a client_id
DailyPost(client, date) == runDailyRoutine("manual", client, date)

\* buildCalendarInputs, aggregateEvents, getProperties, groupTasksByRecipient
DailyFetch(i) ==
    /\ dailyRun.calls[i].pc = "fetch"
    /\ LET c == dailyRun.calls[i]
       IN  dailyRun' = [dailyRun EXCEPT
              !.fetched = Append(@, [call |-> c.call, client |-> c.client,
                                     date |-> c.date]),
              !.calls[i] = [c EXCEPT !.pc = "send",
                                     !.recipients = RecipientsOf(c.client)]]
    /\ UNCHANGED <<pipelines, scheduler, cacheVars, guestReservation, syncRun, webhook>>

\* one pass of the loop over the recipients: createMessageLog, sendMessage,
\* updateMessageStatus, createCleaningEvent; after the last, the run row is
\* updated and the call returns
DailySend(i) ==
    /\ dailyRun.calls[i].pc = "send"
    /\ LET c == dailyRun.calls[i]
       IN  \E success \in BOOLEAN :
             dailyRun' = [dailyRun EXCEPT
                !.sends = Append(@, [call |-> c.call, client |-> c.client,
                                     date |-> c.date, recipient |-> Head(c.recipients),
                                     success |-> success]),
                !.runs = IF Tail(c.recipients) = <<>>
                         THEN updateCleaningRun(@, c.call, "success") ELSE @,
                !.calls[i] = IF Tail(c.recipients) = <<>> THEN [pc |-> "idle"]
                             ELSE [c EXCEPT !.recipients = Tail(@)]]
    /\ UNCHANGED <<pipelines, scheduler, cacheVars, guestReservation, syncRun, webhook>>

\* an awaited call inside the try rejects: the catch marks the run failed
\* and rethrows
DailyThrows(i) ==
    /\ dailyRun.calls[i].pc \in {"fetch", "send"}
    /\ dailyRun' = [dailyRun EXCEPT
          !.runs = updateCleaningRun(@, dailyRun.calls[i].call, "failed"),
          !.calls[i] = [pc |-> "idle"]]
    /\ UNCHANGED <<pipelines, scheduler, cacheVars, guestReservation, syncRun, webhook>>

InitDaily ==
    /\ InitTables
    /\ libCall = [fn |-> "none"]

NextDaily ==
    \/ DailyCron
    \/ \E client \in Clients, date \in RunDates : DailyPost(client, date)
    \/ \E i \in Invocations : DailyFetch(i)
    \/ \E i \in Invocations : DailySend(i)
    \/ \E i \in Invocations : DailyThrows(i)

SpecDaily == InitDaily /\ [][NextDaily]_vars

\* the same client and run date
sameRun(a, b) == a.client = b.client /\ a.date = b.date

\* C28: at most one runDailyRoutine per (client, run date) ever sends: a second
\* invocation for the same client and date, sequential or concurrent, fails at
\* the creation of the cleaning-run record before any calendar fetch,
\* message-log row or send, so no recipient gets a second message for that date
OneRoutinePerDate ==
    /\ \A a, b \in 1..Len(dailyRun.runs) :
          (dailyRun.runs[a].client_id = dailyRun.runs[b].client_id
           /\ dailyRun.runs[a].run_date = dailyRun.runs[b].run_date) => a = b
    /\ \A a, b \in 1..Len(dailyRun.sends) :
          /\ sameRun(dailyRun.sends[a], dailyRun.sends[b])
               => dailyRun.sends[a].call = dailyRun.sends[b].call
          /\ (sameRun(dailyRun.sends[a], dailyRun.sends[b])
              /\ dailyRun.sends[a].recipient = dailyRun.sends[b].recipient) => a = b
    /\ \A a, b \in 1..Len(dailyRun.fetched) :
          sameRun(dailyRun.fetched[a], dailyRun.fetched[b]) => a = b
    /\ \A r \in 1..Len(dailyRun.refused) :
          /\ \A k \in 1..Len(dailyRun.sends) :
                dailyRun.sends[k].call # dailyRun.refused[r].call
          /\ \A k \in 1..Len(dailyRun.fetched) :
                dailyRun.fetched[k].call # dailyRun.refused[r].call
          /\ \A i \in Invocations :
                dailyRun.calls[i].pc # "idle"
                  => dailyRun.calls[i].call # dailyRun.refused[r].call

\* POST /run was refused for the client and date of a cron routine that is
\* still sending
SecondRoutineRefused ==
    /\ dailyRun.calls["cron"].pc = "send"
    /\ \E k \in 1..Len(dailyRun.sends) : dailyRun.sends[k].call = dailyRun.calls["cron"].call
    /\ \E r \in 1..Len(dailyRun.refused) :
          /\ dailyRun.refused[r].entry = "manual"
          /\ sameRun(dailyRun.refused[r], dailyRun.calls["cron"])

(***************************************************************************)
(* syncPropertyCalendar, one await at a time                               *)
(***************************************************************************)
\* what a calendar import never touches
notSync == <<status, employeePhone, userId, messageTemplate, processedEvent,
             messageLog, sendCalls, planned, isRunning, inv, triggers,
             useRedis, cleaningTemplate, notificationLog, notificationQueue, cleaning,
             jobRun, auditLog, rejections, responses, fetchFailed, fetchRun, libCall,
             scheduler, cacheVars, guestReservation, dailyRun, webhook>>

\* the row reservation.create writes for an event
importedRow(p, source, event) ==
    [propertyId |-> p, source |-> source, externalId |-> event.uid,
     checkoutDate |-> event.end, status |-> "confirmed", event |-> event.id]

\* the call after an event is dealt with: the next event, the next source, or
\* the return
proceed(c) ==
    IF c.events # <<>> THEN [c EXCEPT !.pc = "find"]
    ELSE IF c.sources # <<>> /\ Tail(c.sources) # <<>>
    THEN [c EXCEPT !.pc = "fetch", !.sources = Tail(@)]
    ELSE [c EXCEPT !.pc = "return"]

\* return { imported }: the caller takes the result; syncAllCalendars goes on
\* to its next property, the route answers
\* (`rerun` is history: a sync of this property had returned when this one began)
settle(sr, i, c) ==
    IF c.pc # "return" THEN [sr EXCEPT !.calls[i] = c]
    ELSE LET result == [call |-> c.call, entry |-> i, property |-> Head(c.properties),
                        imported |-> c.imported, rerun |-> c.rerun]
         IN  [sr EXCEPT
                !.results = Append(@, result),
                !.calls[i] = IF Tail(c.properties) = <<>> THEN [pc |-> "idle"]
                             ELSE [c EXCEPT !.pc = "begin", !.properties = Tail(@)]]

\* a caller starts on a list of properties
startSync(i, properties) ==
    /\ syncRun.calls[i].pc = "idle"
    /\ syncRun.started < MaxTriggers
    /\ syncRun' = [syncRun EXCEPT
          !.started = @ + 1,
          !.calls[i] = [pc |-> "begin", call |-> syncRun.started + 1,
                        properties |-> properties, sources |-> <<>>, events |-> <<>>,
                        imported |-> 0, rerun |-> FALSE]]
    /\ UNCHANGED <<reservation, notSync>>

\* the calendar-sync job: property.findMany, then the loop
SyncAllCalendars == startSync("cron", SetToSeq(Properties))

\* POST /api/automation/sync-calendar/:propertyId
SyncCalendarRoute(p) == startSync("manual", <<p>>)

\* property.findUnique and the list of sources with a URL
SyncBegin(i) ==
    /\ syncRun.calls[i].pc = "begin"
    /\ LET c == syncRun.calls[i]
           p == Head(c.properties)
           sources == SelectSeq(Sources, LAMBDA source : icalUrl(p, source) # NoUrl)
           begun == [c EXCEPT !.sources = sources, !.events = <<>>, !.imported = 0,
                              !.rerun = \E k \in 1..Len(syncRun.results) :
                                            syncRun.results[k].property = p,
                              !.pc = IF sources = <<>> THEN "return" ELSE "fetch"]
       IN  syncRun' = settle(syncRun, i, begun)
    /\ UNCHANGED <<reservation, notSync>>

\* icalService.fetchEvents(url) for the source at hand
SyncFetch(i) ==
    /\ syncRun.calls[i].pc = "fetch"
    /\ LET c == syncRun.calls[i]
           events == fetchEvents(icalUrl(Head(c.properties), Head(c.sources)), fetchFailed)
       IN  syncRun' = settle(syncRun, i, proceed([c EXCEPT !.events = events]))
    /\ UNCHANGED <<reservation, notSync>>

\* reservation.findFirst for the event at hand; an event without start or end
\* is skipped before it
SyncFind(i) ==
    /\ syncRun.calls[i].pc = "find"
    /\ LET c == syncRun.calls[i]
           event == Head(c.events)
       IN  syncRun' =
             IF ~event.hasEnd
                \/ existingReservation(reservation, Head(c.properties), event.uid,
                                       Head(c.sources))
             THEN settle(syncRun, i, proceed([c EXCEPT !.events = Tail(@)]))
             ELSE [syncRun EXCEPT !.calls[i].pc = "create"]
    /\ UNCHANGED <<reservation, notSync>>

\* reservation.create for the event the find did not match
SyncCreate(i) ==
    /\ syncRun.calls[i].pc = "create"
    /\ LET c == syncRun.calls[i]
       IN  /\ reservation' = Append(reservation,
                                    importedRow(Head(c.properties), Head(c.sources),
                                                Head(c.events)))
           /\ syncRun' = settle(syncRun, i,
                                proceed([c EXCEPT !.events = Tail(@),
                                                  !.imported = @ + 1]))
    /\ UNCHANGED notSync

InitSync ==
    /\ InitTables
    /\ libCall = [fn |-> "none"]

NextSync ==
    \/ SyncAllCalendars
    \/ \E p \in Properties : SyncCalendarRoute(p)
    \/ \E i \in Invocations : SyncBegin(i)
    \/ \E i \in Invocations : SyncFetch(i)
    \/ \E i \in Invocations : SyncFind(i)
    \/ \E i \in Invocations : SyncCreate(i)

SpecSync == InitSync /\ [][NextSync]_vars

\* C29: calendar import is idempotent: at most one reservation per
\* (propertyId, externalId, source), and a sync of a property that begins
\* after another sync of it returned imports 0 reservations, whatever the
\* interleaving of a manual sync with the calendar-sync job
ImportIdempotent ==
    /\ \A a, b \in 1..Len(reservation) :
          (/\ reservation[a].propertyId = reservation[b].propertyId
           /\ reservation[a].externalId = reservation[b].externalId
           /\ reservation[a].source = reservation[b].source) => a = b
    /\ \A k \in 1..Len(syncRun.results) :
          syncRun.results[k].rerun => syncRun.results[k].imported = 0

(***************************************************************************)
(* WebhookService.sendWebhook for one webhook                              *)
(***************************************************************************)
\* this.maxRetries
maxRetries == 3

\* what fetch(webhook.url) can do: an HTTP response of any status, or a
\* rejection
HttpOutcomes == {"200", "500", "network error", "timeout"}

\* what a webhook delivery never touches
notWebhook == <<pipelines, scheduler, cacheVars, guestReservation, dailyRun, syncRun>>

\* logWebhook: webhookLog.create inside a try whose catch only prints
logWebhook(log, delivery, statusCode, st, attempts, dbOk) ==
    IF dbOk
    THEN Append(log, [delivery |-> delivery, statusCode |-> statusCode, status |-> st,
                      attempts |-> attempts])
    ELSE log

\* the catch of sendWebhook: another sendWebhook with attempt + 1 after the
\* delay, or the record of the failure
catchError(c) ==
    IF c.attempt < maxRetries THEN [c EXCEPT !.pc = "fetch", !.attempt = @ + 1]
    ELSE [c EXCEPT !.pc = "log failed"]

\* trigger(event, payload) with the one active webhook listening: sendWebhook
\* with attempt 1
TriggerWebhook ==
    /\ webhook.call.pc = "idle"
    /\ webhook.triggered < MaxTriggers
    /\ webhook' = [webhook EXCEPT
          !.triggered = @ + 1,
          !.call = [pc |-> "fetch", delivery |-> webhook.triggered + 1, attempt |-> 1,
                    statusCode |-> ""]]
    /\ UNCHANGED notWebhook

\* await fetch(...) and await response.text()
\* (`requests` is history: the HTTP requests made, and whether each completed)
WebhookFetch ==
    /\ webhook.call.pc = "fetch"
    /\ \E outcome \in HttpOutcomes :
          LET c == webhook.call
              completed == outcome \in {"200", "500"}
          IN  webhook' = [webhook EXCEPT
                 !.requests = Append(@, [delivery |-> c.delivery, attempt |-> c.attempt,
                                         completed |-> completed]),
                 !.call = IF completed
                          THEN [c EXCEPT !.pc = "log", !.statusCode = outcome]
                          ELSE catchError(c)]
    /\ UNCHANGED notWebhook

\* await this.logWebhook(..., 'success')
WebhookLogSuccess ==
    /\ webhook.call.pc = "log"
    /\ \E dbOk \in BOOLEAN :
          webhook' = [webhook EXCEPT
             !.log = logWebhook(@, webhook.call.delivery, webhook.call.statusCode,
                                "success", 1, dbOk),
             !.call.pc = "update"]
    /\ UNCHANGED notWebhook

\* await prisma.webhook.update({ successCount: { increment: 1 } }) inside the
\* try, then return { success: true }
WebhookUpdateSuccess ==
    /\ webhook.call.pc = "update"
    /\ \E dbOk \in BOOLEAN :
          webhook' =
            IF dbOk
            THEN [webhook EXCEPT
                    !.successCount = @ + 1,
                    !.ended = Append(@, [delivery |-> webhook.call.delivery,
                                         success |-> TRUE, rejected |-> FALSE]),
                    !.call = [pc |-> "idle"]]
            ELSE [webhook EXCEPT !.call = catchError(webhook.call)]
    /\ UNCHANGED notWebhook

\* await this.logWebhook(..., 'failed', error.message, attempt) in the catch
WebhookLogFailed ==
    /\ webhook.call.pc = "log failed"
    /\ \E dbOk \in BOOLEAN :
          webhook' = [webhook EXCEPT
             !.log = logWebhook(@, webhook.call.delivery, "", "failed",
                                webhook.call.attempt, dbOk),
             !.call.pc = "update failed"]
    /\ UNCHANGED notWebhook

\* await prisma.webhook.update({ failureCount: { increment: 1 } }) in the
\* catch, then return { success: false }; a rejection here rejects sendWebhook
WebhookUpdateFailed ==
    /\ webhook.call.pc = "update failed"
    /\ \E dbOk \in BOOLEAN :
          webhook' = [webhook EXCEPT
             !.failureCount = IF dbOk THEN @ + 1 ELSE @,
             !.ended = Append(@, [delivery |-> webhook.call.delivery,
                                  success |-> FALSE, rejected |-> ~dbOk]),
             !.call = [pc |-> "idle"]]
    /\ UNCHANGED notWebhook

InitWebhook ==
    /\ InitTables
    /\ libCall = [fn |-> "none"]

NextWebhook ==
    \/ TriggerWebhook
    \/ WebhookFetch
    \/ WebhookLogSuccess
    \/ WebhookUpdateSuccess
    \/ WebhookLogFailed
    \/ WebhookUpdateFailed

SpecWebhook == InitWebhook /\ [][NextWebhook]_vars

\* the HTTP requests and the log rows of a delivery
requestsOf(d) == {k \in 1..Len(webhook.requests) : webhook.requests[k].delivery = d}

logRowsOf(d) == {k \in 1..Len(webhook.log) : webhook.log[k].delivery = d}

\* C30: a delivery makes at most maxRetries HTTP requests and none after a
\* request that completed; once it has ended it has exactly one WebhookLog row
\* and has incremented exactly one of successCount and failureCount, also
\* when a database write fails
WebhookDelivery ==
    /\ \A d \in 1..webhook.triggered : Cardinality(requestsOf(d)) <= maxRetries
    /\ \A a, b \in 1..Len(webhook.requests) :
          (a < b /\ webhook.requests[a].delivery = webhook.requests[b].delivery)
            => ~webhook.requests[a].completed
    /\ \A k \in 1..Len(webhook.ended) :
          Cardinality(logRowsOf(webhook.ended[k].delivery)) = 1
    /\ webhook.successCount + webhook.failureCount = Len(webhook.ended)
====
